---- MODULE Spec2Model ----
(***************************************************************************)
(* Remote-session lifecycle manager of the Devin / GitHub issue            *)
(* orchestrator: the Result Extractor (app/clients/message_parser.py),     *)
(* the retry executor and response handling of the session client          *)
(* (app/clients/devin_client.py) and the start-phase / query-status        *)
(* handlers (app/api/routes.py) over the persisted tables (app/models.py). *)
(*                                                                         *)
(* Four specifications share the module (SpecPollFair is SpecPoll with the *)
(* fairness of a running call):                                            *)
(*   Spec         start-phase and query-status over the database           *)
(*   SpecExtract  the Result Extractor as a pure function of a transcript  *)
(*   SpecRetry    one call of an operation wrapped by retry_on_server_error*)
(*   SpecPoll     one call of DevinClient.poll_session                     *)
(***************************************************************************)
EXTENDS Integers, Sequences, FiniteSets, TLC

VARIABLES
    \* ---- SpecExtract: one run of the Result Extractor
    xMessages,      \* the transcript handed to the extractor
    xPhase,         \* which extractor ran: "none", "scope" or "exec"
    xRet,           \* its outcome: a returned value or a raised exception
    \* ---- Spec: the persisted tables and the last handled request
    sessions,       \* table "sessions": sequence of rows, in insertion order
    issues,         \* table "issues": tracked entity -> row or NoRow
    events,         \* table "events": sequence of logged events
    ops,            \* number of requests handled so far
    last,           \* the request handled last, its inputs and its outcome
    \* ---- SpecRetry: one call through retry_on_server_error.sync_wrapper
    rPc,            \* "call" while attempts go on, "done" once it left
    rAttempt,       \* loop variable `attempt`
    rMaxRetries,    \* decorator argument max_retries of this call
    rUrl,           \* the request URL, as pieces of text
    rCalls,         \* number of times the wrapped operation was invoked
    rResponses,     \* the response each attempt made so far received, in order
    rErrors,        \* the failure of each attempt made so far, in order
    rWaits,         \* the sleeps made so far, in seconds, in order
    rLastException, \* local `last_exception`
    rOutcome,       \* what the call handed back: a value or a raised failure
    \* ---- SpecPoll: one call of DevinClient.poll_session
    poll,           \* its locals, what it did so far and its outcome
    \* ---- SpecGhRetry: one call through retry_on_rate_limit.sync_wrapper
    gh,             \* its locals, the client's rate-limit field, its history
    \* ---- SpecPrompt: one call of DevinClient._build_execution_prompt
    prompt,         \* its arguments and what it handed back
    \* ---- SpecConcurrent: two start-phase requests handled at the same time
    conc            \* per request: where it is, its locals and its outcome

xvars == <<xMessages, xPhase, xRet>>
dbvars == <<sessions, issues, events, ops, last>>
rvars == <<rPc, rAttempt, rMaxRetries, rUrl, rCalls, rResponses, rErrors, rWaits, rLastException, rOutcome>>
vars == <<xvars, dbvars, rvars, poll, gh, prompt, conc>>

-----------------------------------------------------------------------------
(* Python / JSON values.  Every value is a record tagged by its type, so    *)
(* that values of different types can be compared.  Numbers are kept in    *)
(* hundredths (0.9 is 90), strings as their sequence of words.             *)

PyNone == [t |-> "None"]
JNum(n) == [t |-> "num", n |-> n]
JStr(words) == [t |-> "str", w |-> words]
JArr(items) == [t |-> "arr", items |-> items]
JObj(members) == [t |-> "obj", m |-> members]

IsDict(v) == v.t = "obj"

\* Python truthiness of a value (`if structured_data:`, `if not structured_output:`)
Truthy(v) ==
    CASE v.t = "None" -> FALSE
      [] v.t = "num" -> v.n # 0
      [] v.t = "str" -> v.w # <<>>
      [] v.t = "arr" -> v.items # <<>>
      [] v.t = "obj" -> DOMAIN v.m # {}
      [] OTHER -> TRUE

\* Whether `key in v` raises TypeError: numbers and booleans are not iterable
InRaises(v) == v.t \in {"num", "bool"}

\* `key in v` for a container v: a key of a dict, an element of a list, a
\* substring of a string (here: one of its words)
PyIn(key, v) ==
    CASE v.t = "obj" -> key \in DOMAIN v.m
      [] v.t = "arr" -> \E i \in DOMAIN v.items : v.items[i] = JStr(<<key>>)
      [] v.t = "str" -> \E i \in DOMAIN v.w : v.w[i] = key
      [] OTHER -> FALSE

\* Outcome of a Python call: a returned value or a raised exception
Return(v) == [k |-> "return", v |-> v]
Raise(exc) == [k |-> "raise", exc |-> exc]

\* str(n) for a small natural number n, as pieces of text
Digits(n) ==
    LET d(k) == CASE k = 0 -> "0" [] k = 1 -> "1" [] k = 2 -> "2" [] k = 3 -> "3"
                  [] k = 4 -> "4" [] k = 5 -> "5" [] k = 6 -> "6" [] k = 7 -> "7"
                  [] k = 8 -> "8" [] OTHER -> "9"
    IN IF n < 10 THEN <<d(n)>>
       ELSE IF n < 100 THEN <<d(n \div 10), d(n % 10)>>
       ELSE <<d(n \div 100), d((n \div 10) % 10), d(n % 10)>>

-----------------------------------------------------------------------------
(* JSON texts that occur in transcripts, and what json.loads makes of them *)

TXT_SCOPE == "{\"summary\": \"done\", \"confidence\": 0.9}"
TXT_PLAN == "{\"plan\": [\"fix\"], \"confidence\": 0.5}"
TXT_CONF == "{\"confidence\": 0.5}"
TXT_EXEC == "{\"status\": \"done\", \"branch\": \"fix-42\"}"
TXT_CODING == "{\"status\": \"coding\"}"
TXT_OTHER == "{\"foo\": 1}"
TXT_NUM == "5"
TXT_STR == "\"see summary\""
TXT_ARR == "[1, 2]"
TXT_NULL == "null"
TXT_BADBRACE == "{oops}"
TXT_BAD == "not json"

OBJ_SCOPE == JObj([key \in {"summary", "confidence"} |->
                    IF key = "summary" THEN JStr(<<"done">>) ELSE JNum(90)])
OBJ_PLAN == JObj([key \in {"plan", "confidence"} |->
                    IF key = "plan" THEN JArr(<<JStr(<<"fix">>)>>) ELSE JNum(50)])
OBJ_CONF == JObj([key \in {"confidence"} |-> JNum(50)])
OBJ_EXEC == JObj([key \in {"status", "branch"} |->
                    IF key = "status" THEN JStr(<<"done">>) ELSE JStr(<<"fix-42">>)])
OBJ_CODING == JObj([key \in {"status"} |-> JStr(<<"coding">>)])
OBJ_OTHER == JObj([key \in {"foo"} |-> JNum(100)])
\* {"summary": "done", "confidence": 1.5}
OBJ_OVER == JObj([key \in {"summary", "confidence"} |->
                    IF key = "summary" THEN JStr(<<"done">>) ELSE JNum(150)])

\* json.loads(text): the parsed value, or JSONDecodeError
json_loads(text) ==
    CASE text = TXT_SCOPE -> Return(OBJ_SCOPE)
      [] text = TXT_PLAN -> Return(OBJ_PLAN)
      [] text = TXT_CONF -> Return(OBJ_CONF)
      [] text = TXT_EXEC -> Return(OBJ_EXEC)
      [] text = TXT_CODING -> Return(OBJ_CODING)
      [] text = TXT_OTHER -> Return(OBJ_OTHER)
      [] text = TXT_NUM -> Return(JNum(500))
      [] text = TXT_STR -> Return(JStr(<<"see", "summary">>))
      [] text = TXT_ARR -> Return(JArr(<<JNum(100), JNum(200)>>))
      [] text = TXT_NULL -> Return(PyNone)
      [] OTHER -> Raise("JSONDecodeError")

\* Whether json_obj_pattern (a brace-delimited substring, one level of
\* nesting) matches the whole of `text`
BraceDelimited(text) ==
    text \in {TXT_SCOPE, TXT_PLAN, TXT_CONF, TXT_EXEC, TXT_CODING, TXT_OTHER, TXT_BADBRACE}

-----------------------------------------------------------------------------
(* A message text is a sequence of chunks: a chunk is a piece of JSON-like *)
(* text, either inside a ```json fence or bare in the prose.               *)

Chunk(fenced, body) == [fenced |-> fenced, body |-> body]

\* value of a transcript entry's "message" key
MsgMissing == [k |-> "missing"]
MsgNone == [k |-> "none"]
MsgText(chunks) == [k |-> "text", chunks |-> chunks]

\* message.get('message', '')
MessageGet(entry) == IF entry.message = MsgMissing THEN MsgText(<<>>) ELSE entry.message

\* mutant: the fenced blocks come out in reverse order
FencedMatches_Reversed(chunks) ==
    LET F[i \in 0..Len(chunks)] ==
            IF i = 0 THEN <<>>
            ELSE IF chunks[i].fenced THEN <<chunks[i].body>> \o F[i-1] ELSE F[i-1]
    IN F[Len(chunks)]

\* re.findall(json_pattern, message): the bodies of the fenced blocks, in order
FencedMatches(chunks) ==
    LET F[i \in 0..Len(chunks)] ==
            IF i = 0 THEN <<>>
            ELSE IF chunks[i].fenced THEN Append(F[i-1], chunks[i].body) ELSE F[i-1]
    IN F[Len(chunks)]

\* re.findall(json_obj_pattern, message): every brace-delimited substring of
\* the text, inside a fence or not, in order
BraceMatches(chunks) ==
    LET F[i \in 0..Len(chunks)] ==
            IF i = 0 THEN <<>>
            ELSE IF BraceDelimited(chunks[i].body) THEN Append(F[i-1], chunks[i].body) ELSE F[i-1]
    IN F[Len(chunks)]

FALLBACK_KEYS == {"summary", "plan", "confidence"}

\* the loop `for match in reversed(matches)` of extract_json_from_message
RECURSIVE ScanBraces(_, _)
ScanBraces(matches, i) ==
    IF i = 0 THEN PyNone
    ELSE LET r == json_loads(matches[i])
         IN IF /\ r.k = "return"
               /\ IsDict(r.v)
               /\ \E key \in FALLBACK_KEYS : PyIn(key, r.v)
            THEN r.v
            ELSE ScanBraces(matches, i - 1)

extract_json_from_message(message) ==
    IF message.k # "text" THEN Raise("TypeError")
    ELSE LET fenced == FencedMatches(message.chunks)
             first == IF fenced # <<>> THEN json_loads(fenced[Len(fenced)])
                      ELSE Raise("JSONDecodeError")
             braces == BraceMatches(message.chunks)
         IN IF fenced # <<>> /\ first.k = "return"
            THEN Return(first.v)
            ELSE Return(ScanBraces(braces, Len(braces)))

\* mutant: the scan runs oldest first (the entries come out reversed)
DevinMessages_OldestFirst(messages) ==
    LET F[i \in 0..Len(messages)] ==
            IF i = 0 THEN <<>>
            ELSE IF messages[i].type = "devin_message"
                 THEN <<messages[i]>> \o F[i-1] ELSE F[i-1]
    IN F[Len(messages)]

\* mutant: no filter on the entry's author
DevinMessages_AnyAuthor(messages) == messages

\* devin_messages = [m for m in messages if m.get('type') == 'devin_message']
DevinMessages(messages) ==
    LET F[i \in 0..Len(messages)] ==
            IF i = 0 THEN <<>>
            ELSE IF messages[i].type = "devin_message"
                 THEN Append(F[i-1], messages[i]) ELSE F[i-1]
    IN F[Len(messages)]

SCOPING_KEYS == <<"summary", "plan">>
EXECUTION_KEYS == <<"status", "branch">>

\* `keys[1] in data or keys[2] in data` on a truthy value
HasExpectedField(keys, data) ==
    IF InRaises(data) THEN Raise("TypeError")
    ELSE Return(PyIn(keys[1], data) \/ PyIn(keys[2], data))

\* the loop `for message in reversed(devin_messages)` of both parsers
RECURSIVE ScanMessages(_, _, _)
ScanMessages(keys, devin, i) ==
    IF i = 0 THEN Return(PyNone)
    ELSE LET sd == extract_json_from_message(MessageGet(devin[i]))
         IN IF sd.k = "raise" THEN sd
            ELSE IF ~Truthy(sd.v) THEN ScanMessages(keys, devin, i - 1)
            ELSE LET has == HasExpectedField(keys, sd.v)
                 IN IF has.k = "raise" THEN has
                    ELSE IF has.v THEN Return(sd.v)
                    ELSE ScanMessages(keys, devin, i - 1)

\* `messages` is a list of entries, or None when the fetched session carries
\* no transcript (iterating None raises TypeError)
PyList(items) == [t |-> "list", items |-> items]

parse_from_messages(keys, messages) ==
    IF messages.t # "list" THEN Raise("TypeError")
    ELSE LET devin == DevinMessages(messages.items)
         IN ScanMessages(keys, devin, Len(devin))

parse_scoping_from_messages(messages) == parse_from_messages(SCOPING_KEYS, messages)
parse_execution_from_messages(messages) == parse_from_messages(EXECUTION_KEYS, messages)

-----------------------------------------------------------------------------
(* SpecExtract: the extractor run once on a transcript                     *)

MaxMsgs == 2

Entry(type, message) == [type |-> type, message |-> message]

AgentTexts ==
    { MsgMissing, MsgNone,
      MsgText(<<Chunk(TRUE, TXT_SCOPE)>>),
      MsgText(<<Chunk(TRUE, TXT_EXEC)>>),
      MsgText(<<Chunk(TRUE, TXT_CODING)>>),
      MsgText(<<Chunk(TRUE, TXT_OTHER)>>),
      MsgText(<<Chunk(TRUE, TXT_NUM)>>),
      MsgText(<<Chunk(TRUE, TXT_STR)>>),
      MsgText(<<Chunk(TRUE, TXT_NULL)>>),
      MsgText(<<Chunk(TRUE, TXT_BAD)>>),
      MsgText(<<Chunk(FALSE, TXT_SCOPE)>>),
      MsgText(<<Chunk(FALSE, TXT_EXEC)>>),
      MsgText(<<Chunk(FALSE, TXT_CONF)>>),
      MsgText(<<Chunk(TRUE, TXT_SCOPE), Chunk(TRUE, TXT_PLAN)>>),
      MsgText(<<Chunk(FALSE, TXT_PLAN), Chunk(TRUE, TXT_BADBRACE)>>),
      MsgText(<<Chunk(TRUE, TXT_EXEC), Chunk(FALSE, TXT_SCOPE), Chunk(TRUE, TXT_BAD)>>) }

\* requester-authored entries: the prompt embeds its schema example as bare
\* JSON (json.dumps(schema)); a requester may also paste a fenced block
UserTexts ==
    { MsgText(<<Chunk(FALSE, TXT_SCOPE)>>),
      MsgText(<<Chunk(TRUE, TXT_EXEC)>>) }

Entries ==
    { Entry("devin_message", t) : t \in AgentTexts }
        \cup { Entry("user_message", t) : t \in UserTexts }

Transcripts == { PyList(items) : items \in UNION { [1..n -> Entries] : n \in 0..MaxMsgs } }

NotRun == [k |-> "notrun"]

XIdle ==
    /\ xMessages = PyList(<<>>)
    /\ xPhase = "none"
    /\ xRet = NotRun

DbIdle ==
    /\ sessions = <<>>
    /\ issues = <<>>
    /\ events = <<>>
    /\ ops = 0
    /\ last = [op |-> "none"]

RIdle ==
    /\ rPc = "idle"
    /\ rAttempt = 0
    /\ rMaxRetries = 0
    /\ rUrl = <<>>
    /\ rCalls = 0
    /\ rResponses = <<>>
    /\ rErrors = <<>>
    /\ rWaits = <<>>
    /\ rLastException = PyNone
    /\ rOutcome = NotRun

PollIdle == poll = [pc |-> "idle"]

GhIdle == gh = [pc |-> "idle"]

PromptIdle == prompt = [pc |-> "idle"]

ConcIdle == conc = [pc |-> "idle"]

InitExtract ==
    /\ xMessages \in Transcripts
    /\ xPhase = "none"
    /\ xRet = NotRun
    /\ DbIdle
    /\ RIdle
    /\ PollIdle
    /\ GhIdle
    /\ PromptIdle
    /\ ConcIdle

ParseScoping ==
    /\ xPhase = "none"
    /\ xPhase' = "scope"
    /\ xRet' = parse_scoping_from_messages(xMessages)
    /\ UNCHANGED <<xMessages, dbvars, rvars, poll, gh, prompt, conc>>

ParseExecution ==
    /\ xPhase = "none"
    /\ xPhase' = "exec"
    /\ xRet' = parse_execution_from_messages(xMessages)
    /\ UNCHANGED <<xMessages, dbvars, rvars, poll, gh, prompt, conc>>

NextExtract == ParseScoping \/ ParseExecution

SpecExtract == InitExtract /\ [][NextExtract]_vars

-----------------------------------------------------------------------------
(* The persisted tables (app/models.py) and the request handlers           *)
(* scope_issue, execute_issue and get_session_status (app/api/routes.py).  *)
(* Each handler is one action: it runs from its first line to its return   *)
(* or to the `except Exception` that turns any failure into HTTP 500.      *)
(* Changes made since the last db.commit() are lost when a handler fails.  *)

MaxOps == 2

SessionIds == {"S1", "S2"}
IssueNumbers == {42, 43}

NoRow == [k |-> "norow"]

\* outcome of a handler as its caller sees it
HttpOk(body) == [k |-> "ok", body |-> body]
HttpError(code) == [k |-> "http_error", code |-> code]

\* db.query(DBSession).filter_by(session_id=...).first(): index of the row, 0 if none
FindSession(tbl, sid) ==
    IF \E i \in DOMAIN tbl : tbl[i].session_id = sid
    THEN CHOOSE i \in DOMAIN tbl :
            /\ tbl[i].session_id = sid
            /\ \A j \in DOMAIN tbl : tbl[j].session_id = sid => i <= j
    ELSE 0

RowOf(tbl, sid) == IF FindSession(tbl, sid) = 0 THEN NoRow ELSE tbl[FindSession(tbl, sid)]

\* DBSession(...) as scope_issue / execute_issue construct it
NewSession(sid, phase, issue, now) ==
    [ session_id |-> sid,
      phase |-> phase,
      issue_number |-> issue,
      status |-> "created",
      last_structured_output |-> PyNone,
      updated_at |-> now,
      finished_at |-> 0 ]

\* mutant: the table accepts a second row with the same session id
DbAdd_NoPrimaryKey(tbl, row) == Return(Append(tbl, row))

\* db.add(row); db.commit(): session_id is the primary key of the table
DbAdd(tbl, row) ==
    IF FindSession(tbl, row.session_id) # 0
    THEN Raise("IntegrityError")
    ELSE Return(Append(tbl, row))

\* mutant: the lookup by session id is dropped and a row is always added
UpsertSession_AlwaysAdd(tbl, sid, phase, issue, now) ==
    DbAdd(tbl, NewSession(sid, phase, issue, now))

\* mutant: storing a session replaces the table by the one new row
UpsertSession_Truncating(tbl, sid, phase, issue, now) ==
    Return(<<NewSession(sid, phase, issue, now)>>)

\* "Store session in database (check if already exists due to idempotency)"
UpsertSession(tbl, sid, phase, issue, now) ==
    LET i == FindSession(tbl, sid)
    IN IF i = 0
       THEN DbAdd(tbl, NewSession(sid, phase, issue, now))
       ELSE Return([tbl EXCEPT ![i].status = "created", ![i].updated_at = now])

\* update_issue_in_db: the row of the tracked issue is created when missing
NewIssue == [confidence_score |-> PyNone, last_scoped_at |-> 0, last_executed_at |-> 0]
update_issue_in_db(tbl, issue) ==
    IF tbl[issue] = NoRow THEN [tbl EXCEPT ![issue] = NewIssue] ELSE tbl

\* log_event(db, session_id, kind, payload)
log_event(tbl, sid, kind) == Append(tbl, [session_id |-> sid, kind |-> kind])

\* the most recent scoping row of the issue (order_by created_at desc, first)
LatestScoping(tbl, issue) ==
    LET S == { i \in DOMAIN tbl : tbl[i].issue_number = issue /\ tbl[i].phase = "scope" }
    IN IF S = {} THEN NoRow ELSE tbl[CHOOSE i \in S : \A j \in S : j <= i]

\* scoping_plan as execute_issue derives it from the stored result: {} when
\* there is none; a result stored as a string goes through json.loads, and
\* the strings of this model ("see summary") are not JSON texts
ScopingPlan(row) ==
    IF row = NoRow \/ ~Truthy(row.last_structured_output) THEN JObj(<<>>)
    ELSE IF row.last_structured_output.t = "str" THEN JObj(<<>>)
    ELSE row.last_structured_output

\* "\n".join(lines)
RECURSIVE JoinLines(_)
JoinLines(lines) ==
    IF lines = <<>> THEN <<>>
    ELSE IF Len(lines) = 1 THEN lines[1]
    ELSE lines[1] \o <<"\n">> \o JoinLines(Tail(lines))

\* d.get(key, 'N/A') inside an f-string: the text of a string value
GetOrNA(d, key) == IF key \in DOMAIN d.m THEN d.m[key].w ELSE <<"N/A">>

\* mutant: a plan line carries the rationale only
PlanLine_RationaleOnly(i, step) == Digits(i) \o <<". ">> \o GetOrNA(step, "rationale")

\* f"{i+1}. {step.get('step', 'N/A')}: {step.get('rationale', 'N/A')}"
PlanLine(i, step) ==
    Digits(i) \o <<". ">> \o GetOrNA(step, "step") \o <<": ">> \o GetOrNA(step, "rationale")

DEFAULT_DOD == <<"- Complete implementation\n- Tests pass">>

\* dod_text: one "- item" line per item, or the default two lines
DodText(scoping_plan) ==
    IF "definition_of_done" \in DOMAIN scoping_plan.m
       /\ Truthy(scoping_plan.m["definition_of_done"])
    THEN JoinLines([i \in DOMAIN scoping_plan.m["definition_of_done"].items |->
                      <<"- ">> \o scoping_plan.m["definition_of_done"].items[i].w])
    ELSE DEFAULT_DOD

\* _build_execution_prompt: the text it returns, as pieces.  For each step
\* of a non-empty plan it calls step.get: a step that is a string has none.
build_execution_prompt(issue_number, repo, issue_title, scoping_plan) ==
    LET plan == scoping_plan.m["plan"]
        plan_text == JoinLines([i \in DOMAIN plan.items |-> PlanLine(i, plan.items[i])])
        text(p) == <<"Implement GitHub issue #">> \o Digits(issue_number)
                   \o <<" in ", repo, ".\n\n**Issue**: ", issue_title,
                        "\n\n**Implementation Plan**:\n">>
                   \o p
                   \o <<"\n\n**Definition of Done**:\n">> \o DodText(scoping_plan)
                   \o <<"\n\n**Your Task**:\n">>
    IN IF ~IsDict(scoping_plan) THEN Raise("AttributeError")
       ELSE IF "plan" \notin DOMAIN scoping_plan.m \/ ~Truthy(plan)
         THEN Return(text(<<"No plan available.">>))
       ELSE IF plan.t # "arr" THEN Raise("TypeError")
       ELSE IF \E i \in DOMAIN plan.items : ~IsDict(plan.items[i])
         THEN Raise("AttributeError")
       ELSE Return(text(plan_text))

\* One call of _build_execution_prompt.  Plan steps: two that carry a
\* description and a rationale (those of test_prompt_generation), one
\* without a rationale, and one that is plain text.
MaxPlanLen == 2

Step(step, rationale) ==
    JObj([key \in {"step", "rationale"} |->
            IF key = "step" THEN JStr(<<step>>) ELSE JStr(<<rationale>>)])

PlanSteps ==
    { Step("Add theme context", "Manage theme state"),
      Step("Create dark mode styles", "Visual changes"),
      JObj([key \in {"step"} |-> JStr(<<"Run the tests">>)]),
      JStr(<<"fix">>) }

ScopingPlans ==
    { JObj([key \in K |-> IF key = "plan" THEN JArr(items)
                          ELSE JArr(<<JStr(<<"Dark mode toggle works">>)>>)]) :
        K \in SUBSET {"plan", "definition_of_done"},
        items \in UNION { [1..n -> PlanSteps] : n \in 0..MaxPlanLen } }

InitPrompt ==
    /\ \E title \in {"Add dark mode support", "Fix login"}, sp \in ScopingPlans :
         prompt = [ pc |-> "call", issue_number |-> 123, repo |-> "test/repo",
                    issue_title |-> title, scoping_plan |-> sp, outcome |-> NotRun ]
    /\ XIdle
    /\ DbIdle
    /\ RIdle
    /\ PollIdle
    /\ GhIdle
    /\ ConcIdle

BuildPrompt ==
    /\ prompt.pc = "call"
    /\ prompt' = [prompt EXCEPT
                     !.pc = "done",
                     !.outcome = build_execution_prompt(prompt.issue_number, prompt.repo,
                                                        prompt.issue_title, prompt.scoping_plan)]
    /\ UNCHANGED <<xvars, dbvars, rvars, poll, gh, conc>>

NextPrompt == BuildPrompt

SpecPrompt == InitPrompt /\ [][NextPrompt]_vars

\* Inputs of one start-phase request: the tracked issue, the session id
\* the session service returns, and the step that fails, if any: the repo
\* text has no "/", the issue tracker fails, create_session fails, or
\* posting the comment fails.
StartInputs ==
    [ issue : IssueNumbers,
      fail : {"none", "repo", "github", "devin", "comment"},
      sid : SessionIds ]

\* whether devin_client.create_*_session returned a session
DevinReturned(in) == in.fail \in {"none", "comment"}

\* What a start-phase handler leaves behind: tables, outcome, external calls
StartResult(ss, is, ev, out, calls, stored) ==
    [sessions |-> ss, issues |-> is, events |-> ev, outcome |-> out, calls |-> calls,
     stored |-> stored]

\* scope_issue (phase "scope") and execute_issue (phase "exec")
start_phase(phase, in, ss, is, ev, now) ==
    LET is1 == IF phase = "scope" THEN update_issue_in_db(is, in.issue) ELSE is
        ghCalls == IF phase = "scope"
                   THEN <<"github.get_issue", "github.get_issue_comments">>
                   ELSE <<"github.get_issue">>
        built == IF phase = "scope" THEN Return(<<"scoping prompt">>)
                 ELSE build_execution_prompt(in.issue, "acme/shop", "Fix login",
                                             ScopingPlan(LatestScoping(ss, in.issue)))
        up == UpsertSession(ss, in.sid, phase, in.issue, now)
        is2 == IF phase = "exec" /\ is1[in.issue] # NoRow
               THEN [is1 EXCEPT ![in.issue].last_executed_at = now] ELSE is1
        ev1 == log_event(ev, in.sid, "session_created")
        allCalls == ghCalls \o <<"devin.create_session", "github.create_comment">>
    IN IF in.fail = "repo"
         THEN StartResult(ss, is, ev, HttpError(500), <<>>, FALSE)
       ELSE IF in.fail = "github"
         THEN StartResult(ss, is, ev, HttpError(500), <<"github.get_issue">>, FALSE)
       ELSE IF built.k = "raise"
         THEN StartResult(ss, is1, ev, HttpError(500), ghCalls, FALSE)
       ELSE IF in.fail = "devin"
         THEN StartResult(ss, is1, ev, HttpError(500),
                          Append(ghCalls, "devin.create_session"), FALSE)
       ELSE IF up.k = "raise"
         THEN StartResult(ss, is1, ev, HttpError(500),
                          Append(ghCalls, "devin.create_session"), FALSE)
       ELSE IF in.fail = "comment"
         THEN StartResult(up.v, is2, ev1, HttpError(500), allCalls, TRUE)
       ELSE StartResult(up.v, is2, ev1, HttpOk(in.sid), allCalls, TRUE)

StartPhase(phase, in) ==
    LET r == start_phase(phase, in, sessions, issues, events, ops + 1)
    IN /\ sessions' = r.sessions
       /\ issues' = r.issues
       /\ events' = r.events
       /\ last' = [ op |-> "start", phase |-> phase, in |-> in, now |-> ops + 1,
                    pre |-> RowOf(sessions, in.sid),
                    stored |-> r.stored, calls |-> r.calls, outcome |-> r.outcome ]
       /\ ops' = ops + 1
       /\ UNCHANGED <<xvars, rvars, poll, gh, prompt, conc>>

ScopeIssue == ops < MaxOps /\ \E in \in StartInputs : StartPhase("scope", in)

ExecuteIssue == ops < MaxOps /\ \E in \in StartInputs : StartPhase("exec", in)

\* A fetched DevinSession, as far as get_session_status reads it
Session(status_enum, structured_output, messages) ==
    [status_enum |-> status_enum, structured_output |-> structured_output, messages |-> messages]

StatusEnums == {"working", "blocked", "finished"}

\* structured_output: Optional[dict]
DirectOutputs == {PyNone, JObj(<<>>), OBJ_PLAN, OBJ_OVER}

\* messages: Optional[List[dict]]
FetchedTranscripts ==
    { PyNone,
      PyList(<<>>),
      PyList(<<Entry("devin_message", MsgText(<<Chunk(TRUE, TXT_SCOPE)>>))>>),
      PyList(<<Entry("devin_message", MsgText(<<Chunk(TRUE, TXT_CODING)>>))>>),
      PyList(<<Entry("devin_message", MsgText(<<Chunk(TRUE, TXT_BAD)>>))>>),
      PyList(<<Entry("devin_message", MsgText(<<Chunk(TRUE, TXT_STR)>>))>>) }

FetchedSessions ==
    { Session(e, so, ms) : e \in StatusEnums, so \in DirectOutputs, ms \in FetchedTranscripts }

\* mutant: the extractor is picked without looking at the recorded phase
ExtractForPhase_AlwaysScoping(phase, messages) == parse_scoping_from_messages(messages)

\* "Try to extract from messages": the extractor of the recorded phase
ExtractForPhase(phase, messages) ==
    IF phase = "scope" THEN parse_scoping_from_messages(messages)
    ELSE parse_execution_from_messages(messages)

\* mutant: the fallback never runs, the fetched field is used as it is
ReconcileOutput_NoFallback(row, session) == Return(session.structured_output)

\* "Fallback: If structured_output is null, try parsing from messages"
ReconcileOutput(row, session) ==
    IF Truthy(session.structured_output) \/ row = NoRow
    THEN Return(session.structured_output)
    ELSE ExtractForPhase(row.phase, session.messages)

\* mutant: the row keeps the fetched field, as poll's update_callback stores it
StoredOutput_Direct(session, structured_output) == session.structured_output

\* db_session.last_structured_output = structured_output
StoredOutput(session, structured_output) == structured_output

\* db_session.status = RUNNING if session.status_enum == "working" else BLOCKED
LifecycleStatus(status_enum) == IF status_enum = "working" THEN "running" ELSE "blocked"

\* structured_output.get("confidence"): None when the key is missing
GetConfidence(so) == IF "confidence" \in DOMAIN so.m THEN so.m["confidence"] ELSE PyNone

\* mutant: the phase of the record is not looked at
PropagatesConfidence_AnyPhase(phase, so) == Truthy(so)

\* `if db_session.phase == SessionPhase.SCOPE and structured_output`
PropagatesConfidence(phase, so) == phase = "scope" /\ Truthy(so)

QueryResult(ss, is, out) == [sessions |-> ss, issues |-> is, outcome |-> out]

\* get_session_status, after devin_client.get_session returned `session`
get_session_status(sid, session, ss, is, now) ==
    LET i == FindSession(ss, sid)
        row == RowOf(ss, sid)
        rec == ReconcileOutput(row, session)
        so == rec.v
        ss1 == [ss EXCEPT ![i].status = LifecycleStatus(session.status_enum),
                          ![i].last_structured_output = StoredOutput(session, so),
                          ![i].updated_at = now]
        conf == GetConfidence(so)
        is1 == IF conf # PyNone /\ is[row.issue_number] # NoRow
               THEN [is EXCEPT ![row.issue_number].confidence_score = conf,
                               ![row.issue_number].last_scoped_at = now]
               ELSE is
    IN IF rec.k = "raise" THEN QueryResult(ss, is, HttpError(500))
       ELSE IF i = 0 THEN QueryResult(ss, is, HttpOk(so))
       ELSE IF PropagatesConfidence(row.phase, so)
         THEN IF ~IsDict(so) THEN QueryResult(ss, is, HttpError(500))
              ELSE QueryResult(ss1, is1, HttpOk(so))
       ELSE QueryResult(ss1, is, HttpOk(so))

\* one query-status request: devin_client.get_session answers `got`
QueryStatus(sid, got) ==
    LET r == IF got.k = "raise" THEN QueryResult(sessions, issues, HttpError(500))
             ELSE get_session_status(sid, got.v, sessions, issues, ops + 1)
    IN /\ sessions' = r.sessions
       /\ issues' = r.issues
       /\ last' = [ op |-> "query", sid |-> sid, got |-> got, now |-> ops + 1,
                    pre |-> RowOf(sessions, sid), outcome |-> r.outcome ]
       /\ ops' = ops + 1
       /\ UNCHANGED <<events, xvars, rvars, poll, gh, prompt, conc>>

GetSessionStatus ==
    /\ ops < MaxOps
    /\ \E sid \in SessionIds :
       \E got \in {Raise("DevinAPIError")} \cup {Return(x) : x \in FetchedSessions} :
           QueryStatus(sid, got)

-----------------------------------------------------------------------------
(* The retry executor retry_on_server_error and DevinClient._handle_response*)
(* (app/clients/devin_client.py).  A text is a sequence of pieces: fixed    *)
(* literals are one piece each (none holds a "5"), digits are pieces of    *)
(* their own, so that `"5" in str(e)` is decided from the text itself.     *)

DEFAULT_MAX_RETRIES == 3
BACKOFF_FACTOR == 2

\* `"5" in text`
Has5(text) == \E i \in DOMAIN text : text[i] = "5"

\* an HTTP response: status code, body text, and where response.json()
\* fails to parse the body (-1: the body is JSON)
Response(status, text, json_error_at) ==
    [status_code |-> status, text |-> text, json_error_at |-> json_error_at]

DevinAPIError(kind, status, msg) == [type |-> "DevinAPIError", kind |-> kind, status |-> status, msg |-> msg]

\* the message of the JSONDecodeError raised at character offset `at`
JsonErrorText(at) ==
    <<"Expecting value: line 1 column ">> \o Digits(at + 1) \o <<" (char ">> \o Digits(at) \o <<")">>

\* DevinClient._handle_response
handle_response(response, url) ==
    IF response.status_code = 400
      THEN Raise(DevinAPIError("bad_request", 400, <<"Bad request: ">> \o response.text))
    ELSE IF response.status_code = 401
      THEN Raise(DevinAPIError("unauthorized", 401, <<"Unauthorized: Invalid API key">>))
    ELSE IF response.status_code = 404
      THEN Raise(DevinAPIError("not_found", 404, <<"Resource not found: ">> \o url))
    ELSE IF response.status_code >= 500
      THEN Raise(DevinAPIError("server_error", response.status_code,
                 <<"Server error ">> \o Digits(response.status_code) \o <<": ">> \o response.text))
    ELSE IF response.status_code >= 400
      THEN Raise(DevinAPIError("api_error", response.status_code,
                 <<"API error ">> \o Digits(response.status_code) \o <<": ">> \o response.text))
    ELSE IF response.json_error_at >= 0
      THEN Raise(DevinAPIError("invalid_json", response.status_code,
                 <<"Invalid JSON response: ">> \o JsonErrorText(response.json_error_at)))
    ELSE Return([t |-> "data", status |-> response.status_code])

\* `if "5" in str(e) and attempt < max_retries - 1`
ShouldRetry(e, attempt, max_retries) ==
    Has5(e.msg) /\ attempt < max_retries - 1

\* backoff_factor ** attempt
RECURSIVE Power(_, _)
Power(b, n) == IF n = 0 THEN 1 ELSE b * Power(b, n - 1)

\* mutant: the wait grows linearly with the attempt index
WaitTime_Linear(attempt) == BACKOFF_FACTOR * attempt

WaitTime(attempt) == Power(BACKOFF_FACTOR, attempt)

\* mutant: the failure kept in last_exception is raised instead
Reraised_LastException(e, last_exception) == last_exception

\* the bare `raise` of the else branch re-raises the failure just caught
Reraised(e, last_exception) == e

StatusCodes == {200, 302, 400, 401, 404, 429, 500, 503}
\* response bodies: two JSON documents and two texts that are not JSON
BODY_SESSION == <<"{\"session_id\": \"devin-ab\"}">>
BODY_DETAIL == <<"{\"detail\": \"retry in ", "5", "s\"}">>
BODY_OOPS == <<"oops">>
BODY_CUT == <<"{\"a\":", "oops">>
BodyTexts == { BODY_SESSION, BODY_DETAIL, BODY_OOPS, BODY_CUT }

\* the character offset at which response.json() gives up on the body
\* (-1: the body is JSON)
JsonErrorAt(text) ==
    CASE text = BODY_OOPS -> 0
      [] text = BODY_CUT -> 5
      [] OTHER -> -1

Responses ==
    { Response(c, t, JsonErrorAt(t)) : c \in StatusCodes, t \in BodyTexts }

\* {base_url}/sessions/{session_id}
Urls == { <<"https://api.devin.ai/v1/sessions/", "devin-", "a", "b">>,
          <<"https://api.devin.ai/v1/sessions/", "devin-", "a", "5">> }

InitRetry ==
    /\ rPc = "call"
    /\ rAttempt = 0
    /\ rMaxRetries \in 0..DEFAULT_MAX_RETRIES
    /\ rUrl \in Urls
    /\ rCalls = 0
    /\ rResponses = <<>>
    /\ rErrors = <<>>
    /\ rWaits = <<>>
    /\ rLastException = PyNone
    /\ rOutcome = NotRun
    /\ XIdle
    /\ DbIdle
    /\ PollIdle
    /\ GhIdle
    /\ PromptIdle
    /\ ConcIdle

\* one pass of `for attempt in range(max_retries)`: the wrapped operation
\* sends its request and hands the response to _handle_response
Attempt ==
    /\ rPc = "call"
    /\ rAttempt < rMaxRetries
    /\ \E response \in Responses :
        LET r == handle_response(response, rUrl)
        IN /\ rCalls' = rCalls + 1
           /\ rResponses' = Append(rResponses, response)
           /\ IF r.k = "return"
              THEN /\ rOutcome' = r
                   /\ rPc' = "done"
                   /\ UNCHANGED <<rAttempt, rErrors, rWaits, rLastException>>
              ELSE /\ rErrors' = Append(rErrors, r.exc)
                   /\ IF ShouldRetry(r.exc, rAttempt, rMaxRetries)
                      THEN /\ rWaits' = Append(rWaits, WaitTime(rAttempt))
                           /\ rLastException' = r.exc
                           /\ rAttempt' = rAttempt + 1
                           /\ UNCHANGED <<rOutcome, rPc>>
                      ELSE /\ rOutcome' = Raise(Reraised(r.exc, rLastException))
                           /\ rPc' = "done"
                           /\ UNCHANGED <<rAttempt, rWaits, rLastException>>
    /\ UNCHANGED <<rMaxRetries, rUrl, xvars, dbvars, poll, gh, prompt, conc>>

\* `raise last_exception` after the loop: reached only when the loop body
\* never ran to a return or a raise
LoopExhausted ==
    /\ rPc = "call"
    /\ rAttempt >= rMaxRetries
    /\ rOutcome' = IF rLastException = PyNone THEN Raise(PyNone) ELSE Raise(rLastException)
    /\ rPc' = "done"
    /\ UNCHANGED <<rAttempt, rMaxRetries, rUrl, rCalls, rResponses, rErrors, rWaits,
                   rLastException, xvars, dbvars, poll, gh, prompt, conc>>

NextRetry == Attempt \/ LoopExhausted

SpecRetry == InitRetry /\ [][NextRetry]_vars

-----------------------------------------------------------------------------
(* The retry executor retry_on_rate_limit and GitHubClient._handle_response *)
(* (app/clients/github_client.py).  Every method of the client is wrapped  *)
(* with max_retries=3 and the default backoff_factor.                      *)

GH_MAX_RETRIES == 3
GH_BACKOFF_FACTOR == 2

\* a response of the issue tracker: status code, the header
\* X-RateLimit-Remaining (PyNone when absent), and whether the lower-cased
\* body text holds "rate limit"
GhResponse(status, remaining, rate_text) ==
    [status_code |-> status, remaining |-> remaining, rate_text |-> rate_text]

\* the two places that raise GitHubRateLimitError: "headers" is
\* _check_rate_limit, "forbidden" is the 403 test of _handle_response
GitHubRateLimitError(kind) == [type |-> "GitHubRateLimitError", kind |-> kind]
GitHubAPIError(status) == [type |-> "GitHubAPIError", status |-> status]

\* _handle_response, _check_rate_limit included: the client's
\* _rate_limit_remaining after the response, and the outcome
gh_handle_response(rate_limit_remaining, response) ==
    LET remaining == IF response.remaining # PyNone THEN response.remaining
                     ELSE rate_limit_remaining
        out == IF remaining = JNum(0)
                 THEN Raise(GitHubRateLimitError("headers"))
               ELSE IF response.status_code = 403 /\ response.rate_text
                 THEN Raise(GitHubRateLimitError("forbidden"))
               ELSE IF response.status_code >= 400
                 THEN Raise(GitHubAPIError(response.status_code))
               ELSE Return([t |-> "data", status |-> response.status_code])
    IN [remaining |-> remaining, out |-> out]

\* mutant: every failure of the wrapped call is caught and retried
GhCaught_AnyFailure(e) == TRUE

\* `except GitHubRateLimitError as e`
GhCaught(e) == e.type = "GitHubRateLimitError"

\* backoff_factor ** attempt
GhWaitTime(attempt) == Power(GH_BACKOFF_FACTOR, attempt)

GhResponses ==
    { GhResponse(c, rem, FALSE) : c \in {201, 403, 404, 500}, rem \in {PyNone, JNum(0), JNum(57)} }
    \cup { GhResponse(403, rem, TRUE) : rem \in {PyNone, JNum(0), JNum(57)} }

InitGhRetry ==
    /\ gh = [ pc |-> "call", attempt |-> 0, remaining |-> PyNone, calls |-> 0,
              responses |-> <<>>, errors |-> <<>>, waits |-> <<>>,
              last_exception |-> PyNone, outcome |-> NotRun ]
    /\ XIdle
    /\ DbIdle
    /\ RIdle
    /\ PollIdle
    /\ PromptIdle
    /\ ConcIdle

\* one pass of `for attempt in range(max_retries)`: the wrapped method sends
\* its request and hands the response to _handle_response
GhAttempt ==
    /\ gh.pc = "call"
    /\ gh.attempt < GH_MAX_RETRIES
    /\ \E response \in GhResponses :
        LET r == gh_handle_response(gh.remaining, response)
            g == [gh EXCEPT !.calls = @ + 1,
                            !.responses = Append(@, response),
                            !.remaining = r.remaining]
        IN gh' = IF r.out.k = "return"
                   THEN [g EXCEPT !.pc = "done", !.outcome = r.out]
                 ELSE IF ~GhCaught(r.out.exc)
                   THEN [g EXCEPT !.pc = "done", !.outcome = r.out,
                                  !.errors = Append(@, r.out.exc)]
                 ELSE [g EXCEPT !.errors = Append(@, r.out.exc),
                                !.last_exception = r.out.exc,
                                !.waits = IF gh.attempt < GH_MAX_RETRIES - 1
                                          THEN Append(@, GhWaitTime(gh.attempt)) ELSE @,
                                !.attempt = @ + 1]
    /\ UNCHANGED <<xvars, dbvars, rvars, poll, prompt, conc>>

\* `raise last_exception` after the loop
GhLoopExhausted ==
    /\ gh.pc = "call"
    /\ gh.attempt >= GH_MAX_RETRIES
    /\ gh' = [gh EXCEPT !.pc = "done", !.outcome = Raise(gh.last_exception)]
    /\ UNCHANGED <<xvars, dbvars, rvars, poll, prompt, conc>>

NextGhRetry == GhAttempt \/ GhLoopExhausted

SpecGhRetry == InitGhRetry /\ [][NextGhRetry]_vars

-----------------------------------------------------------------------------
(* The Session Poller DevinClient.poll_session (app/clients/devin_client.py).*)
(* Times are counted in quarters of a second, so that 1.5 x interval is    *)
(* computed exactly for the intervals used here (8 s, 15 s, 40 s).         *)

\* quarters per second
Q == 4

\* settings.devin_poll_interval and settings.devin_poll_max_interval (defaults)
DEVIN_POLL_INTERVAL == 15 * Q
DEVIN_POLL_MAX_INTERVAL == 30 * Q

\* settings.devin_poll_timeout in seconds, as configured for these runs
\* (DEVIN_POLL_TIMEOUT in the environment; the default is 1800)
PollTimeoutSeconds == 60
DEVIN_POLL_TIMEOUT == PollTimeoutSeconds * Q

\* terminal_states = {'finished', 'blocked', 'stopped'}
TERMINAL_STATES == {"finished", "blocked", "stopped"}

\* the fields of a DevinSession the poller reads; "" stands for None (and
\* for the empty text, which is falsy as well)
DevinSession(status_enum, status) == [status_enum |-> status_enum, status |-> status]

\* str.lower() on the status texts used here
Lower(text) ==
    CASE text = "Finished" -> "finished"
      [] text = "Working" -> "working"
      [] text = "BLOCKED" -> "blocked"
      [] OTHER -> text

\* mutant: the status text is consulted first
StatusStr_TextFirst(session) ==
    IF session.status # "" THEN Lower(session.status)
    ELSE IF session.status_enum # "" THEN Lower(session.status_enum)
    ELSE "unknown"

\* "Prefer status_enum (machine-readable) over status (human-readable)"
StatusStr(session) ==
    IF session.status_enum # "" THEN Lower(session.status_enum)
    ELSE IF session.status # "" THEN Lower(session.status)
    ELSE "unknown"

\* mutant: only finished ends the poll
IsTerminal_FinishedOnly(status_str) == status_str = "finished"

\* mutant: an unknown status ends the poll as well
IsTerminal_AlsoUnknown(status_str) == status_str \in TERMINAL_STATES \cup {"unknown"}

\* `if status_str in terminal_states`
IsTerminal(status_str) == status_str \in TERMINAL_STATES

\* mutant: the elapsed-time check lets one more maximum interval pass
TimedOut_Late(elapsed, timeout) == elapsed > timeout + DEVIN_POLL_MAX_INTERVAL

\* `if elapsed > timeout`
TimedOut(elapsed, timeout) == elapsed > timeout

\* mutant: the callback is skipped on the tick that ends the poll
InvokesCallback_NotOnTerminal(callback, status_str) == callback /\ ~IsTerminal(status_str)

\* `if callback:` stands before the terminal check
InvokesCallback(callback, status_str) == callback

\* mutant: a failure of the callback leaves the poll
CallbackEscapes_Propagates(cb_raises) == cb_raises

\* `except Exception as e: logger.warning(...)`: the failure is swallowed
CallbackEscapes(cb_raises) == FALSE

\* mutant: the interval slept is the one already raised for the next tick
SleepInterval_Next(current_interval, next_interval) == next_interval

\* time.sleep(current_interval), before current_interval is raised
SleepInterval(current_interval, next_interval) == current_interval

Min(a, b) == IF a <= b THEN a ELSE b

\* mutant: the interval doubles
NextInterval_Double(current_interval) == Min(current_interval * 2, DEVIN_POLL_MAX_INTERVAL)

\* min(current_interval * 1.5, self.max_poll_interval)
NextInterval(current_interval) == Min((current_interval * 3) \div 2, DEVIN_POLL_MAX_INTERVAL)

\* `interval or self.default_poll_interval`, `timeout or self.default_poll_timeout`
OrDefault(arg, default) == IF Truthy(arg) THEN arg.n ELSE default

\* the locals of a call that has just entered the loop
PollStart(interval, timeout, callback) ==
    [ pc |-> "poll",
      interval |-> OrDefault(interval, DEVIN_POLL_INTERVAL),
      timeout |-> OrDefault(timeout, DEVIN_POLL_TIMEOUT),
      callback |-> callback,
      current_interval |-> OrDefault(interval, DEVIN_POLL_INTERVAL),
      elapsed |-> 0,              \* time.time() - start_time at the loop head
      checked_at |-> 0,           \* `elapsed` of the check before the last fetch
      fetches |-> 0,              \* calls of self.get_session
      fetched |-> NotRun,         \* outcome of the last of them
      status_str |-> "",
      callbacks |-> 0,            \* invocations of the callback
      callback_arg |-> NotRun,    \* the session handed to the last of them
      callback_raised |-> FALSE,  \* whether the last of them raised
      sleeps |-> <<>>,            \* the time.sleep arguments so far
      outcome |-> NotRun ]

\* one pass of `while True` that gets past the elapsed-time check: the fetch
\* (with what it returned or raised), the callback (raising or not), the
\* terminal check, the sleep and the new interval.  `dur` is the time the
\* fetch and the callback took.
poll_tick(p, fetch, dur, cb_raises) ==
    LET p1 == [p EXCEPT !.checked_at = p.elapsed, !.fetches = @ + 1, !.fetched = fetch]
    IN IF fetch.k = "raise"
       THEN [p1 EXCEPT !.pc = "done", !.outcome = fetch]
       ELSE
         LET session == fetch.v
             st == StatusStr(session)
             called == InvokesCallback(p.callback, st)
             p2 == IF called
                   THEN [p1 EXCEPT !.status_str = st, !.callbacks = @ + 1,
                                   !.callback_arg = session, !.callback_raised = cb_raises]
                   ELSE [p1 EXCEPT !.status_str = st]
             next == NextInterval(p.current_interval)
             slept == SleepInterval(p.current_interval, next)
         IN IF called /\ CallbackEscapes(cb_raises)
              THEN [p2 EXCEPT !.pc = "done", !.outcome = Raise("CallbackError")]
            ELSE IF IsTerminal(st)
              THEN [p2 EXCEPT !.pc = "done", !.outcome = Return(session)]
            ELSE [p2 EXCEPT !.sleeps = Append(@, slept),
                            !.current_interval = next,
                            !.elapsed = @ + dur + slept]

\* arguments of a call: interval and timeout are Optional[int], a callback
\* is passed or not
PollIntervals == {PyNone, JNum(8 * Q), JNum(40 * Q)}
PollTimeouts == {PyNone, JNum(0), JNum(20 * Q), JNum(75 * Q)}

\* what self.get_session hands to the poller: a validated DevinSession, a
\* DevinAPIError that the retry executor let through, or the ValidationError
\* of DevinSession(**data) for a status_enum outside the declared values
PolledSessions ==
    { DevinSession(e, "") : e \in {"working", "blocked", "finished", "suspend_requested",
                                   "resume_requested", "resumed", "stopped"} }
    \cup { DevinSession("working", "finished"), DevinSession("", "Finished"),
           DevinSession("", "Working"), DevinSession("", "BLOCKED"), DevinSession("", "") }
FetchOutcomes ==
    { Return(session) : session \in PolledSessions }
    \cup { Raise("DevinAPIError"), Raise("ValidationError") }

\* time taken by one fetch and callback: none, or the 1 s + 2 s of waits of
\* a fetch that went through two retries
TickDurations == {0, 3 * Q}

InitPoll ==
    /\ \E interval \in PollIntervals, timeout \in PollTimeouts, callback \in BOOLEAN :
         poll = PollStart(interval, timeout, callback)
    /\ XIdle
    /\ DbIdle
    /\ RIdle
    /\ GhIdle
    /\ PromptIdle
    /\ ConcIdle

\* a pass of the loop whose elapsed-time check lets the fetch go ahead
PollTick ==
    /\ poll.pc = "poll"
    /\ ~TimedOut(poll.elapsed, poll.timeout)
    /\ \E fetch \in FetchOutcomes, dur \in TickDurations, cb_raises \in BOOLEAN :
         poll' = poll_tick(poll, fetch, dur, cb_raises)
    /\ UNCHANGED <<xvars, dbvars, rvars, gh, prompt, conc>>

\* a pass of the loop that ends at `raise DevinTimeoutError(...)`
PollTimeout ==
    /\ poll.pc = "poll"
    /\ TimedOut(poll.elapsed, poll.timeout)
    /\ poll' = [poll EXCEPT !.pc = "done", !.outcome = Raise("DevinTimeoutError")]
    /\ UNCHANGED <<xvars, dbvars, rvars, gh, prompt, conc>>

NextPoll == PollTick \/ PollTimeout

SpecPoll == InitPoll /\ [][NextPoll]_vars

\* a running call keeps running: the loop has no blocking step other than
\* time.sleep and the fetch, which both end
SpecPollFair == SpecPoll /\ WF_vars(NextPoll)

-----------------------------------------------------------------------------
(* The poll handler GET /sessions/{session_id}/poll (app/api/routes.py): it *)
(* runs DevinClient.poll_session to its end with update_callback as the    *)
(* callback, then records the final status.  Spec is completed here.       *)

MaxTicks == 2

\* a fetched DevinSession as the poll handler and its callback read it
PolledSession(status_enum, structured_output) ==
    [status_enum |-> status_enum, status |-> "", structured_output |-> structured_output]

PollRouteFetches ==
    { Return(PolledSession("working", PyNone)), Return(PolledSession("finished", OBJ_PLAN)),
      Return(PolledSession("blocked", PyNone)), Return(PolledSession("stopped", PyNone)),
      Raise("DevinAPIError") }

\* query parameter `timeout` of the request
PollRouteTimeouts == {JNum(20 * Q)}

\* the fetch outcomes one request may meet, tick by tick
TickSequences ==
    UNION { [1..n -> PollRouteFetches] : n \in 1..MaxTicks }

\* update_callback(session): "Update database on each poll"
update_callback(ss, sid, session, now) ==
    LET i == FindSession(ss, sid)
    IN IF i = 0 THEN ss
       ELSE [ss EXCEPT ![i].last_structured_output = session.structured_output,
                       ![i].updated_at = now]

\* mutant: a stopped session is recorded as blocked
FinalStatus_StoppedBlocked(row, status_enum, now) ==
    IF status_enum = "finished"
    THEN [row EXCEPT !.status = "finished", !.finished_at = now]
    ELSE [row EXCEPT !.status = "blocked"]

\* "Update final status": finished and blocked are recorded, nothing else
FinalStatus(row, status_enum, now) ==
    IF status_enum = "finished"
    THEN [row EXCEPT !.status = "finished", !.finished_at = now]
    ELSE IF status_enum = "blocked"
    THEN [row EXCEPT !.status = "blocked"]
    ELSE row

\* devin_client.poll_session(session_id, timeout, callback=update_callback)
\* run over the fetch outcomes `ticks` from tick i on: the poller's state,
\* the table as the callback leaves it, and the number of ticks used
RECURSIVE poll_run(_, _, _, _, _, _)
poll_run(p, ss, ticks, i, sid, now) ==
    IF p.pc = "done" THEN [p |-> p, sessions |-> ss, used |-> i - 1]
    ELSE IF TimedOut(p.elapsed, p.timeout)
      THEN [ p |-> [p EXCEPT !.pc = "done", !.outcome = Raise("DevinTimeoutError")],
             sessions |-> ss, used |-> i - 1 ]
    ELSE IF i > Len(ticks) THEN [p |-> p, sessions |-> ss, used |-> i - 1]
    ELSE LET p1 == poll_tick(p, ticks[i], 0, FALSE)
             ss1 == IF p1.callbacks > p.callbacks
                    THEN update_callback(ss, sid, ticks[i].v, now) ELSE ss
         IN poll_run(p1, ss1, ticks, i + 1, sid, now)

\* str(e) of the failures that leave poll_session
ErrorDetail(exc) ==
    IF exc = "DevinTimeoutError" THEN "Polling timed out" ELSE "Server error"

PollResult(ss, out, detail, run) ==
    [sessions |-> ss, outcome |-> out, detail |-> detail, run |-> run]

\* the call the handler makes: no interval, the request's timeout, the callback
ClientPoll(sid, timeout, ticks, ss, now) ==
    poll_run(PollStart(PyNone, timeout, TRUE), ss, ticks, 1, sid, now)

\* the handler poll_session of the API
poll_session_route(sid, timeout, ticks, ss, now) ==
    LET run == ClientPoll(sid, timeout, ticks, ss, now)
        final == run.p.outcome
        i == FindSession(run.sessions, sid)
        ss1 == IF i = 0 THEN run.sessions
               ELSE [run.sessions EXCEPT ![i] = FinalStatus(@, final.v.status_enum, now)]
    IN IF final.k = "raise"
       THEN PollResult(run.sessions, HttpError(500), ErrorDetail(final.exc), run)
       ELSE PollResult(ss1,
                       HttpOk([status_enum |-> final.v.status_enum,
                               structured_output |-> final.v.structured_output]),
                       "", run)

\* one poll request that meets the fetch outcomes `ticks`, all of them
PollSession(sid, timeout, ticks) ==
    LET run == ClientPoll(sid, timeout, ticks, sessions, ops + 1)
        r == poll_session_route(sid, timeout, ticks, sessions, ops + 1)
    IN /\ run.p.pc = "done"
       /\ run.used = Len(ticks)
       /\ sessions' = r.sessions
       /\ last' = [ op |-> "poll", sid |-> sid, ticks |-> ticks, now |-> ops + 1,
                    pre |-> RowOf(sessions, sid), ended |-> r.run.p.outcome,
                    outcome |-> r.outcome, detail |-> r.detail ]
       /\ ops' = ops + 1
       /\ UNCHANGED <<issues, events, xvars, rvars, poll, gh, prompt, conc>>

Init ==
    /\ sessions = <<>>
    /\ issues = [n \in IssueNumbers |-> NoRow]
    /\ events = <<>>
    /\ ops = 0
    /\ last = [op |-> "none"]
    /\ XIdle
    /\ RIdle
    /\ PollIdle
    /\ GhIdle
    /\ PromptIdle
    /\ ConcIdle

Next == ScopeIssue \/ ExecuteIssue \/ GetSessionStatus

Spec == Init /\ [][Next]_vars

\* The same handlers over a longer history: one tracked entity, no failing
\* step in a start, two answers of the session service to a query, and
\* the poll handler.
MaxSteps == 3

WorkflowStarts == [issue : {42}, fail : {"none"}, sid : SessionIds]

WorkflowFetched ==
    { Session("working", OBJ_PLAN, PyNone), Session("finished", PyNone, PyNone) }

WorkflowScope == ops < MaxSteps /\ \E in \in WorkflowStarts : StartPhase("scope", in)

WorkflowExecute == ops < MaxSteps /\ \E in \in WorkflowStarts : StartPhase("exec", in)

WorkflowQuery ==
    /\ ops < MaxSteps
    /\ \E sid \in SessionIds, x \in WorkflowFetched : QueryStatus(sid, Return(x))

WorkflowPoll ==
    /\ ops < MaxSteps
    /\ \E sid \in SessionIds, timeout \in PollRouteTimeouts, ticks \in TickSequences :
           PollSession(sid, timeout, ticks)

NextWorkflow == WorkflowScope \/ WorkflowExecute \/ WorkflowQuery \/ WorkflowPoll

SpecWorkflow == Init /\ [][NextWorkflow]_vars

-----------------------------------------------------------------------------
(* Two start-phase requests handled at the same time, each in its own      *)
(* database session (app/api/routes.py, scope_issue and execute_issue).    *)
(* A request is followed from the call of the session service on; its      *)
(* steps are the points where the other request can come in between: the   *)
(* session service answering, the lookup of the record by session id, and  *)
(* the commit of the added or updated row.  The event is logged with the   *)
(* commit; the issue row and the comment are left out.                     *)

Requests == {1, 2}

InitConcurrent ==
    /\ \E phase \in [Requests -> {"scope", "exec"}] :
         conc = [ pc |-> [r \in Requests |-> "create"],
                  phase |-> phase,
                  sid |-> [r \in Requests |-> ""],
                  found |-> [r \in Requests |-> 0],
                  outcome |-> [r \in Requests |-> NotRun] ]
    /\ sessions = <<>>
    /\ issues = <<>>
    /\ events = <<>>
    /\ ops = 0
    /\ last = [op |-> "none"]
    /\ XIdle
    /\ RIdle
    /\ PollIdle
    /\ GhIdle
    /\ PromptIdle

\* devin_client.create_scoping_session / create_execution_session returns
\* (or fails)
ConcCreate(r) ==
    /\ conc.pc[r] = "create"
    /\ \/ \E sid \in SessionIds :
            conc' = [conc EXCEPT !.pc[r] = "lookup", !.sid[r] = sid]
       \/ conc' = [conc EXCEPT !.pc[r] = "done", !.outcome[r] = HttpError(500)]
    /\ UNCHANGED <<xvars, dbvars, rvars, poll, gh, prompt>>

\* db.query(DBSession).filter_by(session_id=session.session_id).first()
ConcLookup(r) ==
    /\ conc.pc[r] = "lookup"
    /\ conc' = [conc EXCEPT !.pc[r] = "store", !.found[r] = FindSession(sessions, conc.sid[r])]
    /\ UNCHANGED <<xvars, dbvars, rvars, poll, gh, prompt>>

\* `if not db_session: db.add(...)  else: update`, db.commit(), log_event
ConcStore(r) ==
    LET now == Len(events) + 1
        added == DbAdd(sessions, NewSession(conc.sid[r], conc.phase[r], 42, now))
        i == FindSession(sessions, conc.sid[r])
    IN /\ conc.pc[r] = "store"
       /\ IF conc.found[r] = 0 /\ added.k = "raise"
          THEN /\ conc' = [conc EXCEPT !.pc[r] = "done", !.outcome[r] = HttpError(500)]
               /\ UNCHANGED <<sessions, events>>
          ELSE /\ sessions' = IF conc.found[r] = 0 THEN added.v
                              ELSE [sessions EXCEPT ![i].status = "created",
                                                    ![i].updated_at = now]
               /\ events' = log_event(events, conc.sid[r], "session_created")
               /\ conc' = [conc EXCEPT !.pc[r] = "done", !.outcome[r] = HttpOk(conc.sid[r])]
       /\ UNCHANGED <<issues, ops, last, xvars, rvars, poll, gh, prompt>>

NextConcurrent == \E r \in Requests : ConcCreate(r) \/ ConcLookup(r) \/ ConcStore(r)

SpecConcurrent == InitConcurrent /\ [][NextConcurrent]_vars

-----------------------------------------------------------------------------
(* Claims about the Result Extractor, checked under SpecExtract            *)

XKeys == IF xPhase = "scope" THEN SCOPING_KEYS ELSE EXECUTION_KEYS

\* What one entry does to the scan on its own: Return(v) with v an accepted
\* value, Return(PyNone) when the scan moves on, or the exception it raises
EntryOutcome(keys, entry) ==
    LET sd == extract_json_from_message(MessageGet(entry))
    IN IF sd.k = "raise" THEN sd
       ELSE IF ~Truthy(sd.v) THEN Return(PyNone)
       ELSE IF InRaises(sd.v) THEN Raise("TypeError")
       ELSE IF PyIn(keys[1], sd.v) \/ PyIn(keys[2], sd.v) THEN Return(sd.v)
       ELSE Return(PyNone)

AgentIndexes(items) == { i \in DOMAIN items : items[i].type = "devin_message" }

\* agent entries that yield an acceptable value, and agent entries that raise
Accepting(keys, items) ==
    { i \in AgentIndexes(items) :
        EntryOutcome(keys, items[i]).k = "return" /\ EntryOutcome(keys, items[i]).v # PyNone }
Raising(keys, items) ==
    { i \in AgentIndexes(items) : EntryOutcome(keys, items[i]).k = "raise" }

MaxOf(S) == CHOOSE x \in S : \A y \in S : y <= x

\* C6 (as claimed): the Result Extractor never raises: whatever the
\* transcript, a run of either parser ends by returning (a value or absent).
C6_ExtractorNeverRaises ==
    xPhase # "none" => xRet.k = "return"

\* C7: extraction scans the agent entries from the most recent to the oldest
\* and returns the value of the first one that yields an acceptable value:
\* whenever it returns, the result is the value of the most recent accepting
\* agent entry (absent when there is none), and it does return that value
\* when no agent entry scanned before it raises.
C7_MostRecentAcceptableWins ==
    xPhase # "none" =>
        LET items == xMessages.items
            acc == Accepting(XKeys, items)
            top == MaxOf(acc)
        IN /\ (xRet.k = "return" /\ acc = {}) => xRet.v = PyNone
           /\ (xRet.k = "return" /\ acc # {}) => xRet.v = EntryOutcome(XKeys, items[top]).v
           /\ (acc # {} /\ \A j \in Raising(XKeys, items) : j < top)
                => xRet = Return(EntryOutcome(XKeys, items[top]).v)

\* two agent entries hold different acceptable objects and the later one won
C7_Witness ==
    /\ xPhase # "none"
    /\ Len(xMessages.items) >= 2
    /\ LET items == xMessages.items
           acc == Accepting(XKeys, items)
       IN /\ Cardinality(acc) >= 2
          /\ \E i \in acc : EntryOutcome(XKeys, items[i]).v # EntryOutcome(XKeys, items[MaxOf(acc)]).v
          /\ xRet = Return(EntryOutcome(XKeys, items[MaxOf(acc)]).v)

\* C8: every value the extractor returns comes from an entry attributed to
\* the remote agent (type "devin_message"), never from a requester's entry.
C8_OnlyAgentEntries ==
    (xPhase # "none" /\ xRet.k = "return" /\ xRet.v # PyNone) =>
        \E i \in AgentIndexes(xMessages.items) :
            EntryOutcome(XKeys, xMessages.items[i]) = Return(xRet.v)

\* the most recent entry is the requester's and holds an acceptable object,
\* yet the object returned is the one of the older agent entry
C8_Witness ==
    /\ xPhase # "none"
    /\ Len(xMessages.items) >= 2
    /\ LET items == xMessages.items
           n == Len(items)
       IN /\ items[n].type = "user_message"
          /\ EntryOutcome(XKeys, items[n]).k = "return"
          /\ EntryOutcome(XKeys, items[n]).v # PyNone
          /\ xRet.k = "return"
          /\ xRet.v # PyNone
          /\ xRet.v # EntryOutcome(XKeys, items[n]).v

-----------------------------------------------------------------------------
(* Claims about start-phase and query-status, checked under Spec           *)

RowCount(sid) == Cardinality({ i \in DOMAIN sessions : sessions[i].session_id = sid })

\* the last request was a start-phase call that got a session id back from
\* the session service
StartGotSession ==
    /\ last.op = "start"
    /\ DevinReturned(last.in)
    /\ \E i \in DOMAIN last.calls : last.calls[i] = "devin.create_session"

\* C1: after any sequence of start-phase calls there is exactly one Phase
\* Record per session id the session service returned: a call that gets back
\* the id of an existing record updates that record (status created, new
\* timestamp) and adds none; a call that gets back a new id adds one.
C1_OneRecordPerSessionId ==
    /\ \A sid \in SessionIds : RowCount(sid) <= 1
    /\ StartGotSession =>
        /\ last.stored
        /\ RowCount(last.in.sid) = 1
        /\ IF last.pre = NoRow
           THEN RowOf(sessions, last.in.sid) =
                    NewSession(last.in.sid, last.phase, last.in.issue, last.now)
           ELSE RowOf(sessions, last.in.sid) =
                    [last.pre EXCEPT !.status = "created", !.updated_at = last.now]

\* a second start-phase call got back the id of the record the first created
C1_Witness ==
    /\ StartGotSession
    /\ last.pre # NoRow
    /\ last.pre.updated_at < last.now
    /\ RowCount(last.in.sid) = 1
    /\ Len(sessions) = 1

\* the last request was a query-status that fetched the session and found
\* a Phase Record for it
QueryWithRecord ==
    /\ last.op = "query"
    /\ last.got.k = "return"
    /\ last.pre # NoRow

\* C2 (as claimed): after query-status for a session that has a Phase
\* Record, the record's status is running for the remote status working,
\* finished for finished, and blocked otherwise.
C2_StatusFollowsRemote ==
    (QueryWithRecord /\ last.outcome.k = "ok") =>
        RowOf(sessions, last.sid).status =
            CASE last.got.v.status_enum = "working" -> "running"
              [] last.got.v.status_enum = "finished" -> "finished"
              [] OTHER -> "blocked"

\* what the extractor of the recorded phase makes of the fetched transcript
Extracted ==
    IF last.pre.phase = "scope"
    THEN parse_scoping_from_messages(last.got.v.messages)
    ELSE parse_execution_from_messages(last.got.v.messages)

\* C3: when the fetched structured result is empty and the session has a
\* Phase Record, query-status runs the extractor of the record's phase on
\* the fetched transcript and returns what it extracted, an object or
\* absent, as the structured result.
C3_ExtractedResultReturned ==
    (QueryWithRecord /\ ~Truthy(last.got.v.structured_output)) =>
        ((Extracted.k = "return" /\ (IsDict(Extracted.v) \/ Extracted.v = PyNone))
            => last.outcome = HttpOk(Extracted.v))

\* a finished session with a null structured result whose agent entry holds
\* fenced JSON with summary and confidence yields that object
C3_Witness ==
    /\ QueryWithRecord
    /\ last.pre.phase = "scope"
    /\ last.got.v.status_enum = "finished"
    /\ last.got.v.structured_output = PyNone
    /\ last.got.v.messages =
          PyList(<<Entry("devin_message", MsgText(<<Chunk(TRUE, TXT_SCOPE)>>))>>)
    /\ last.outcome = HttpOk(OBJ_SCOPE)

\* no chunk of any entry of the transcript parses as JSON
NoRecoverableJson(messages) ==
    \/ messages = PyNone
    \/ /\ messages.t = "list"
       /\ \A i \in DOMAIN messages.items :
            /\ messages.items[i].message.k = "text"
            /\ \A c \in DOMAIN messages.items[i].message.chunks :
                 json_loads(messages.items[i].message.chunks[c].body).k = "raise"

\* C4 (as claimed): query-status for a session whose structured result is
\* empty and whose transcript is absent, empty or without recoverable JSON
\* completes successfully with an absent structured result.
C4_ExtractionMissNeverFails ==
    ( /\ last.op = "query"
      /\ last.got.k = "return"
      /\ ~Truthy(last.got.v.structured_output)
      /\ NoRecoverableJson(last.got.v.messages) )
        => (last.outcome.k = "ok" /\ ~Truthy(last.outcome.body))

\* C5: after a query-status that answers for a session with a Phase Record,
\* the record's latest structured result equals the structured result
\* returned: the fetched one when it is non-empty, otherwise the extracted.
C5_StoredEqualsReturned ==
    (QueryWithRecord /\ last.outcome.k = "ok") =>
        /\ RowOf(sessions, last.sid).last_structured_output = last.outcome.body
        /\ last.outcome.body =
              IF Truthy(last.got.v.structured_output)
              THEN last.got.v.structured_output
              ELSE Extracted.v

\* the fetched result was empty, the extractor found an object, and the
\* record now holds that object
C5_Witness ==
    /\ QueryWithRecord
    /\ last.outcome.k = "ok"
    /\ ~Truthy(last.got.v.structured_output)
    /\ Truthy(last.outcome.body)
    /\ last.pre.last_structured_output = PyNone
    /\ RowOf(sessions, last.sid).last_structured_output = last.outcome.body

-----------------------------------------------------------------------------
(* Claims about the retry executor, checked under SpecRetry                *)

\* the failures the interface calls fatal: 400, 401, 404, malformed body
Fatal(e) == e.kind \in {"bad_request", "unauthorized", "not_found", "invalid_json"}

\* C9 (as claimed): a fatal failure (400, 401, 404, or a body that is not
\* JSON) is propagated at once: it is the last attempt of the call, the call
\* raises it, and no wait follows it, whatever the body or the URL holds.
C9_FatalNeverRetried ==
    \A i \in DOMAIN rErrors :
        Fatal(rErrors[i]) =>
            /\ i = Len(rErrors)
            /\ rPc = "done"
            /\ rOutcome = Raise(rErrors[i])
            /\ Len(rWaits) = i - 1

\* C10: the wrapped operation is invoked at most max_retries times per call;
\* a call that fails raises the failure of its last attempt, and when every
\* attempt fails with a server error all max_retries attempts are made.
C10_BoundedAttemptsLastFailure ==
    /\ rCalls <= rMaxRetries
    /\ (rPc = "done" /\ rOutcome.k = "raise" /\ rErrors # <<>>)
          => rOutcome.exc = rErrors[Len(rErrors)]
    /\ ( /\ rPc = "done"
         /\ rMaxRetries >= 1
         /\ Len(rErrors) = rCalls
         /\ \A i \in DOMAIN rErrors : rErrors[i].kind = "server_error" )
          => /\ rCalls = rMaxRetries
             /\ rOutcome = Raise(rErrors[rMaxRetries])

\* three attempts, each a server error, the last one different from the one
\* before it, and the call raised the last one
C10_Witness ==
    /\ rPc = "done"
    /\ rMaxRetries = DEFAULT_MAX_RETRIES
    /\ rCalls = DEFAULT_MAX_RETRIES
    /\ Len(rErrors) = DEFAULT_MAX_RETRIES
    /\ \A i \in DOMAIN rErrors : rErrors[i].kind = "server_error"
    /\ rErrors[DEFAULT_MAX_RETRIES] # rErrors[DEFAULT_MAX_RETRIES - 1]
    /\ rOutcome = Raise(rErrors[DEFAULT_MAX_RETRIES])

\* C11: the wait before attempt i+1 (i = 0, 1, ...) is backoff_factor^i
\* seconds: the first wait is 1 s, each later wait is backoff_factor times
\* the one before it, nothing else is added, one wait precedes every attempt
\* after the first, and so the waits of one call never decrease.
C11_BackoffExponential ==
    /\ \A i \in DOMAIN rWaits :
          rWaits[i] = IF i = 1 THEN 1 ELSE BACKOFF_FACTOR * rWaits[i - 1]
    /\ \A i \in DOMAIN rWaits : \A j \in DOMAIN rWaits : i <= j => rWaits[i] <= rWaits[j]
    /\ \A i \in 1..(rCalls - 1) : i \in DOMAIN rWaits
    /\ Len(rWaits) <= rCalls

\* a call that made three attempts waited 1 s and then 2 s
C11_Witness ==
    /\ rCalls = 3
    /\ rWaits = <<1, 2>>

\* the rate-limit failure: HTTP 429
RateLimited(e) == e.status = 429

\* C12 (as claimed): a failure with HTTP status 429 is retryable: while
\* attempts remain after it, the call does not end with it; it waits the
\* backoff of that attempt and goes on to the next attempt, as for a 5xx.
C12_RateLimitRetried ==
    \A i \in DOMAIN rErrors :
        (RateLimited(rErrors[i]) /\ i < rMaxRetries) =>
            /\ rOutcome # Raise(rErrors[i])
            /\ Len(rWaits) >= i
            /\ rWaits[i] = Power(BACKOFF_FACTOR, i - 1)

\* `text` occurs in `msg` as a run of consecutive pieces
Carries(msg, text) ==
    \E k \in 0..(Len(msg) - Len(text)) :
        \A j \in DOMAIN text : msg[k + j] = text[j]

\* C13 (as claimed): every response whose status is outside 200-299 makes
\* the attempt fail with a DevinAPIError whose text carries the HTTP status
\* and the response body; in particular no call returns a value from a
\* response outside 200-299.
C13_Non2xxFailsWithStatusAndBody ==
    /\ Len(rErrors) <= Len(rResponses)
    /\ \A i \in DOMAIN rResponses :
          ~(rResponses[i].status_code \in 200..299) =>
              /\ i \in DOMAIN rErrors
              /\ rErrors[i].type = "DevinAPIError"
              /\ Carries(rErrors[i].msg, Digits(rResponses[i].status_code))
              /\ Carries(rErrors[i].msg, rResponses[i].text)

-----------------------------------------------------------------------------
(* Claims about query-status and the tracked entity, checked under Spec    *)

\* C20 (as claimed): the confidence persisted on a tracked entity is absent
\* or a number v with 0.0 <= v <= 1.0 (0..100 hundredths): a structured
\* result whose confidence is outside that range is not stored.
C20_ConfidenceInRange ==
    \A n \in IssueNumbers :
        issues[n] # NoRow =>
            \/ issues[n].confidence_score = PyNone
            \/ /\ issues[n].confidence_score.t = "num"
               /\ issues[n].confidence_score.n >= 0
               /\ issues[n].confidence_score.n <= 100

-----------------------------------------------------------------------------
(* Claims about the Session Poller, checked under SpecPoll / SpecPollFair  *)

\* the last fetch of the call handed a session to the poller
Polled == poll.pc # "idle" /\ poll.fetches > 0 /\ poll.fetched.k = "return"

\* C14: poll_session returns a session at a tick if and only if the status
\* observed at that tick is finished, blocked or stopped; it then returns
\* the session of that tick without sleeping, and working,
\* suspend_requested, resume_requested and resumed never cause a return.
C14_ReturnsIffTerminal ==
    /\ Polled =>
         /\ (poll.outcome.k = "return") <=> (poll.status_str \in {"finished", "blocked", "stopped"})
         /\ poll.outcome.k = "return" =>
              /\ poll.pc = "done"
              /\ poll.outcome.v = poll.fetched.v
              /\ Len(poll.sleeps) = poll.fetches - 1
         /\ poll.fetched.v.status_enum \in {"working", "suspend_requested",
                                            "resume_requested", "resumed"}
              => poll.outcome.k # "return"
    /\ (poll.pc # "idle" /\ poll.outcome.k = "return") => Polled

\* the second fetch saw status stopped and the call returned that session
C14_Witness ==
    /\ Polled
    /\ poll.fetches = 2
    /\ poll.fetched.v = DevinSession("stopped", "")
    /\ poll.outcome = Return(DevinSession("stopped", ""))
    /\ Len(poll.sleeps) = 1

\* the interval in force at the i-th tick of a call that started with `first`
RECURSIVE IntervalAt(_, _)
IntervalAt(first, i) ==
    IF i = 1 THEN first
    ELSE LET prev == IntervalAt(first, i - 1)
         IN IF (3 * prev) \div 2 > DEVIN_POLL_MAX_INTERVAL
            THEN DEVIN_POLL_MAX_INTERVAL ELSE (3 * prev) \div 2

\* C15: a call that sees a terminal status on its k-th fetch, after k-1
\* non-terminal ones and within the timeout, has made exactly k fetches and
\* k-1 sleeps, the i-th sleep being of the interval in force at tick i; a
\* call still polling after k fetches has slept k times.
C15_FetchesAndSleeps ==
    /\ (poll.pc # "idle" /\ poll.outcome.k = "return") =>
         /\ Len(poll.sleeps) = poll.fetches - 1
         /\ \A i \in DOMAIN poll.sleeps : poll.sleeps[i] = IntervalAt(poll.interval, i)
    /\ poll.pc = "poll" =>
         /\ Len(poll.sleeps) = poll.fetches
         /\ \A i \in DOMAIN poll.sleeps : poll.sleeps[i] = IntervalAt(poll.interval, i)

\* working, working, working, finished with the default interval: four
\* fetches, sleeps of 15 s, 22.5 s and 30 s
C15_Witness ==
    /\ poll.pc = "done"
    /\ poll.fetches = 4
    /\ poll.outcome = Return(DevinSession("finished", ""))
    /\ poll.sleeps = <<15 * Q, 90, 30 * Q>>

\* the call ended without ever fetching a terminal status or a failure
NeverTerminal ==
    /\ poll.pc = "done"
    /\ poll.fetched.k # "raise"
    /\ ~(poll.status_str \in {"finished", "blocked", "stopped"})

\* C16: every call ends, and a call to which no fetch reported a terminal
\* status ends with DevinTimeoutError; the elapsed-time check precedes every
\* fetch, so no fetch is started once the elapsed time exceeds the timeout,
\* and the number of fetches is bounded by the timeout.
C16_TimeoutEndsPolling ==
    /\ <>(poll.pc = "done")
    /\ [](NeverTerminal => poll.outcome = Raise("DevinTimeoutError"))
    /\ [](poll.fetches > 0 => poll.checked_at <= poll.timeout)
    /\ [](poll.fetches <= poll.timeout \div Min(poll.interval, DEVIN_POLL_MAX_INTERVAL) + 1)

\* three fetches, none terminal, then the timeout
C16_Witness ==
    /\ NeverTerminal
    /\ poll.fetches >= 3
    /\ poll.elapsed > poll.timeout
    /\ poll.outcome = Raise("DevinTimeoutError")

\* C17: when a callback is supplied it is invoked exactly once per fetched
\* session, with that session, before the return decision: also on the tick
\* whose status is terminal; without a callback nothing is invoked.
C17_ObserverOncePerFetch ==
    poll.pc # "idle" =>
        /\ poll.callback =>
             /\ poll.callbacks = poll.fetches - (IF poll.fetched.k = "raise" THEN 1 ELSE 0)
             /\ Polled => poll.callback_arg = poll.fetched.v
             /\ poll.outcome.k = "return" => poll.callback_arg = poll.outcome.v
        /\ ~poll.callback => poll.callbacks = 0

\* the call returned at its second fetch and the callback has seen both
\* sessions, the terminal one last
C17_Witness ==
    /\ poll.pc = "done"
    /\ poll.callback
    /\ poll.fetches = 2
    /\ poll.callbacks = 2
    /\ poll.outcome.k = "return"
    /\ poll.callback_arg = poll.outcome.v

\* a poll state without the record of whether the callback raised
Unobserved(p) == [p EXCEPT !.callback_raised = FALSE]

\* C18: a callback that raises changes nothing but the fact that it
\* raised: from every state of a call, and for every fetch outcome and
\* duration, the tick with a raising callback leads to the same locals,
\* fetch count, sleeps and outcome as the tick with a callback that does not
\* raise; no call ends with the callback's failure.
C18_ObserverFailureIgnored ==
    /\ (poll.pc = "poll" /\ ~TimedOut(poll.elapsed, poll.timeout)) =>
         \A fetch \in FetchOutcomes, dur \in TickDurations :
             Unobserved(poll_tick(poll, fetch, dur, TRUE))
                 = Unobserved(poll_tick(poll, fetch, dur, FALSE))
    /\ poll.pc = "done" => poll.outcome # Raise("CallbackError")

\* the callback raised at the first tick, the call slept and goes on
C18_Witness ==
    /\ poll.pc = "poll"
    /\ poll.callback
    /\ poll.callback_raised
    /\ poll.fetches = 1
    /\ Len(poll.sleeps) = 1

\* C19 (as claimed): a call that completes either returns a session whose
\* status is terminal or fails with DevinTimeoutError; nothing else.
C19_TerminalOrTimeout ==
    poll.pc = "done" =>
        \/ /\ poll.outcome.k = "return"
           /\ StatusStr(poll.outcome.v) \in {"finished", "blocked", "stopped"}
        \/ poll.outcome = Raise("DevinTimeoutError")

\* C19 (amended): a call that completes ends in exactly one of three ways:
\* it returns a session whose status is terminal, it fails with
\* DevinTimeoutError, or it fails with the failure of a fetch
\* (get_session's DevinAPIError or validation error), which it lets through.
C19_TerminalTimeoutOrFetchFailure ==
    poll.pc = "done" =>
        \/ /\ poll.outcome.k = "return"
           /\ StatusStr(poll.outcome.v) \in {"finished", "blocked", "stopped"}
        \/ /\ poll.outcome = Raise("DevinTimeoutError")
           /\ poll.elapsed > poll.timeout
        \/ /\ poll.outcome.k = "raise"
           /\ poll.outcome # Raise("DevinTimeoutError")
           /\ poll.fetched = poll.outcome

\* the second fetch failed with DevinAPIError and the call failed with it
C19_Witness ==
    /\ poll.pc = "done"
    /\ poll.fetches = 2
    /\ poll.fetched = Raise("DevinAPIError")
    /\ poll.outcome = Raise("DevinAPIError")

\* C21: when the fetched session has a status code (status_enum), the
\* terminal decision depends on the status code alone, whatever the status
\* text says; the lower-cased status text decides only when the status code
\* is absent.
C21_StatusCodeAuthoritative ==
    Polled =>
        LET session == poll.fetched.v
            returned == poll.outcome.k = "return"
        IN /\ session.status_enum # "" =>
                (returned <=> session.status_enum \in {"finished", "blocked", "stopped"})
           /\ (session.status_enum = "" /\ session.status \in {"Finished", "BLOCKED"}) => returned
           /\ (session.status_enum = "" /\ session.status \in {"Working", ""}) => ~returned

\* status code working with status text 'finished': the call slept and
\* goes on polling
C21_Witness ==
    /\ Polled
    /\ poll.fetched.v = DevinSession("working", "finished")
    /\ poll.pc = "poll"
    /\ poll.fetches = 1
    /\ Len(poll.sleeps) = 1

\* C26: a non-terminal tick sleeps for the current interval and then sets
\* the interval to min(1.5 x current interval, maximum interval); 1.5 x
\* current interval is a whole number of quarter seconds whenever it is the
\* smaller of the two.
C26_SleepThenGrow ==
    [][ (poll.pc = "poll" /\ poll'.pc = "poll") =>
          /\ poll'.sleeps = Append(poll.sleeps, poll.current_interval)
          /\ IF 3 * poll.current_interval <= 2 * DEVIN_POLL_MAX_INTERVAL
             THEN 2 * poll'.current_interval = 3 * poll.current_interval
             ELSE poll'.current_interval = DEVIN_POLL_MAX_INTERVAL ]_vars

\* after two non-terminal ticks from 8 s: sleeps of 8 s and 12 s, next 18 s
C26_Witness ==
    /\ poll.pc = "poll"
    /\ poll.sleeps = <<8 * Q, 12 * Q>>
    /\ poll.current_interval = 18 * Q

-----------------------------------------------------------------------------
(* Claims about key filters and fences, checked under SpecExtract          *)

\* the allow-list of a phase as the interface states it
AllowList(phase) ==
    IF phase = "scope" THEN {"summary", "plan", "confidence"} ELSE {"status", "branch"}

\* the transcript has one agent entry, whose text holds one piece of JSON
\* that parses to an object
SoleObject ==
    /\ xPhase # "none"
    /\ Cardinality(AgentIndexes(xMessages.items)) = 1
    /\ \A i \in AgentIndexes(xMessages.items) :
         /\ xMessages.items[i].message.k = "text"
         /\ Len(xMessages.items[i].message.chunks) = 1
         /\ json_loads(xMessages.items[i].message.chunks[1].body).k = "return"
         /\ IsDict(json_loads(xMessages.items[i].message.chunks[1].body).v)

\* C27 (as claimed): for each phase, a parsed JSON object is accepted
\* exactly when its key set meets the phase's allow-list, {summary, plan,
\* confidence} for analysis and {status, branch} for implementation, be the
\* object inside a fenced block or bare in the text.
C27_AcceptedIffKeysInAllowList ==
    SoleObject =>
        \A i \in AgentIndexes(xMessages.items) :
            LET obj == json_loads(xMessages.items[i].message.chunks[1].body).v
            IN IF DOMAIN obj.m \cap AllowList(xPhase) # {}
               THEN xRet = Return(obj)
               ELSE xRet = Return(PyNone)

\* index of the last fenced chunk of a text, 0 when it has none
LastFenced(chunks) ==
    IF \E i \in DOMAIN chunks : chunks[i].fenced
    THEN MaxOf({ i \in DOMAIN chunks : chunks[i].fenced }) ELSE 0

\* chunks that the brace-delimited scan takes: brace-delimited text that
\* parses to an object with one of the keys summary, plan, confidence
BraceHits(chunks) ==
    { i \in DOMAIN chunks :
        /\ BraceDelimited(chunks[i].body)
        /\ json_loads(chunks[i].body).k = "return"
        /\ IsDict(json_loads(chunks[i].body).v)
        /\ DOMAIN json_loads(chunks[i].body).v.m \cap {"summary", "plan", "confidence"} # {} }

\* value of the last chunk the brace-delimited scan takes, absent if none
BraceResult(chunks) ==
    IF BraceHits(chunks) = {} THEN PyNone
    ELSE json_loads(chunks[MaxOf(BraceHits(chunks))].body).v

\* the agent entries of the transcript that hold a text
TextEntries == { i \in AgentIndexes(xMessages.items) : xMessages.items[i].message.k = "text" }

\* C28 (as claimed): within one agent entry a fenced JSON block is tried
\* before any bare brace-delimited text and the last fenced block is the one
\* used; the brace-delimited scan, last candidate first, gives the result
\* only when no fenced block of the entry parses.
C28_FencedBeforeBraces ==
    xPhase # "none" =>
        \A e \in TextEntries :
            LET chunks == xMessages.items[e].message.chunks
                r == extract_json_from_message(xMessages.items[e].message)
                parsing == { i \in DOMAIN chunks :
                               chunks[i].fenced /\ json_loads(chunks[i].body).k = "return" }
            IN IF parsing # {}
               THEN /\ \E i \in parsing : r = Return(json_loads(chunks[i].body).v)
                    /\ LastFenced(chunks) \in parsing
                         => r = Return(json_loads(chunks[LastFenced(chunks)].body).v)
               ELSE r = Return(BraceResult(chunks))

\* C28 (amended): within one agent entry only the last fenced JSON block is
\* tried: when it parses its value is the result, whatever bare text
\* follows; when the entry has no fenced block or the last one does not
\* parse, even if an earlier fenced block would, the result is that of the
\* brace-delimited scan, last candidate first.
C28_LastFencedThenBraces ==
    xPhase # "none" =>
        \A e \in TextEntries :
            LET chunks == xMessages.items[e].message.chunks
                r == extract_json_from_message(xMessages.items[e].message)
                lf == LastFenced(chunks)
            IN IF lf # 0 /\ json_loads(chunks[lf].body).k = "return"
               THEN r = Return(json_loads(chunks[lf].body).v)
               ELSE r = Return(BraceResult(chunks))

\* the only agent entry holds two fenced blocks with different objects and
\* the extractor returned the object of the second
C28_Witness ==
    /\ xPhase = "scope"
    /\ Cardinality(AgentIndexes(xMessages.items)) = 1
    /\ \E e \in TextEntries :
         LET chunks == xMessages.items[e].message.chunks
         IN /\ Len(chunks) = 2
            /\ chunks[1].fenced /\ chunks[2].fenced
            /\ json_loads(chunks[1].body).k = "return"
            /\ json_loads(chunks[1].body) # json_loads(chunks[2].body)
            /\ xRet = json_loads(chunks[2].body)

-----------------------------------------------------------------------------
(* Claims about the tracked entity and the Phase Records, checked under    *)
(* SpecWorkflow (C22, C23, C24) and Spec (C25)                             *)

\* C24: a query-status for a session whose Phase Record has the
\* implementation phase leaves the confidence and the last-scoped timestamp
\* of every tracked entity as they were; a query-status that answers for an
\* analysis-phase record with a confidence in its result puts that
\* confidence and the time on the record's tracked entity.
C24_OnlyScopePropagatesConfidence ==
    [][ (last'.op = "query" /\ ops' = ops + 1 /\ last'.pre # NoRow) =>
          /\ last'.pre.phase = "exec" =>
               \A n \in IssueNumbers :
                   \/ issues'[n] = issues[n]
                   \/ /\ issues[n] # NoRow
                      /\ issues'[n] # NoRow
                      /\ issues'[n].confidence_score = issues[n].confidence_score
                      /\ issues'[n].last_scoped_at = issues[n].last_scoped_at
          /\ ( /\ last'.pre.phase = "scope"
               /\ last'.outcome.k = "ok"
               /\ IsDict(last'.outcome.body)
               /\ "confidence" \in DOMAIN last'.outcome.body.m
               /\ issues[last'.pre.issue_number] # NoRow ) =>
                 /\ issues'[last'.pre.issue_number].confidence_score
                        = last'.outcome.body.m["confidence"]
                 /\ issues'[last'.pre.issue_number].last_scoped_at = last'.now ]_vars

\* a query-status answered for an implementation-phase record with a
\* result that carries a confidence, and the tracked entity has none
C24_Witness ==
    /\ QueryWithRecord
    /\ last.pre.phase = "exec"
    /\ last.outcome.k = "ok"
    /\ IsDict(last.outcome.body)
    /\ "confidence" \in DOMAIN last.outcome.body.m
    /\ issues[last.pre.issue_number] # NoRow
    /\ issues[last.pre.issue_number].confidence_score = PyNone

\* the Phase Records of a tracked entity and phase in an active status
ActiveRows(issue, phase) ==
    { i \in DOMAIN sessions :
        /\ sessions[i].issue_number = issue
        /\ sessions[i].phase = phase
        /\ sessions[i].status \in {"created", "running"} }

\* C25 (as claimed): at most one Phase Record per tracked entity and phase
\* is in an active lifecycle status (created or running).
C25_OneActivePerEntityPhase ==
    \A issue \in IssueNumbers : \A phase \in {"scope", "exec"} :
        Cardinality(ActiveRows(issue, phase)) <= 1

\* what the poll handler reports when a fetch of the session fails
RemoteFailureOutcome ==
    poll_session_route("S1", JNum(20 * Q), <<Raise("DevinAPIError")>>, <<>>, 1).outcome

\* C22 (as claimed): when polling exceeds its budget, the poll handler
\* reports an outcome that differs from the one it reports when a remote
\* call fails.
C22_TimeoutDistinctFromRemoteFailure ==
    (last.op = "poll" /\ last.ended = Raise("DevinTimeoutError")) =>
        last.outcome # RemoteFailureOutcome

\* C23: no start-phase, query-status or poll operation deletes a Phase
\* Record: a session id that has a record before a step has one after it.
C23_RecordsNeverDeleted ==
    [][ \A sid \in SessionIds :
          RowOf(sessions, sid) # NoRow => RowOf(sessions', sid) # NoRow ]_vars

\* two records exist, one was left blocked or running by a query-status,
\* and a poll has just run for a recorded session
C23_Witness ==
    /\ last.op = "poll"
    /\ last.pre # NoRow
    /\ Len(sessions) = 2
    /\ \E i \in DOMAIN sessions : sessions[i].status \in {"running", "blocked", "finished"}

-----------------------------------------------------------------------------
(* Claims about the issue-tracker client's retry, checked under SpecGhRetry, *)
(* and about the implementation-phase prompt, checked under SpecPrompt       *)

\* a failure the session client's retry treats as transient
TransientFailure == handle_response(Response(503, BODY_OOPS, 0), <<"https://api.devin.ai/v1/sessions">>).exc

IsRateLimitFailure(e) == e.type = "GitHubRateLimitError"

\* C29: the issue-tracker client's retry makes at most 3 attempts; after a
\* rate-limit failure it waits and tries again exactly when the session
\* client's retry does so after a transient failure at the same attempt,
\* and for the same time backoff_factor^attempt; once the attempts are
\* used up the failure of the last attempt is propagated; a failure that
\* is not a rate-limit failure ends the call at the attempt it occurs in,
\* with no wait, and is propagated.
C29_RateLimitRetriedLikeTransient ==
    gh.pc # "idle" =>
      /\ gh.calls <= DEFAULT_MAX_RETRIES
      /\ Len(gh.waits) <= Len(gh.errors)
      /\ \A i \in DOMAIN gh.errors :
           IF IsRateLimitFailure(gh.errors[i])
           THEN /\ (i <= Len(gh.waits)) <=>
                      ShouldRetry(TransientFailure, i - 1, DEFAULT_MAX_RETRIES)
                /\ i <= Len(gh.waits) => gh.waits[i] = WaitTime(i - 1)
           ELSE /\ i = Len(gh.errors)
                /\ Len(gh.waits) = i - 1
                /\ gh.calls = i
                /\ gh.pc = "done"
                /\ gh.outcome = Raise(gh.errors[i])
      /\ (gh.pc = "done" /\ gh.outcome.k = "raise") =>
             /\ gh.errors # <<>>
             /\ gh.calls = Len(gh.errors)
             /\ gh.outcome = Raise(gh.errors[Len(gh.errors)])
      /\ (gh.pc = "done" /\ gh.outcome.k = "return") => gh.calls = Len(gh.errors) + 1

\* three attempts met a rate limit, the last in another way than the one
\* before; the call waited 1 s and 2 s and raised the last failure
C29_Witness ==
    /\ gh.pc = "done"
    /\ Len(gh.errors) = 3
    /\ \A i \in 1..3 : IsRateLimitFailure(gh.errors[i])
    /\ gh.errors[3] # gh.errors[2]
    /\ gh.waits = <<1, 2>>
    /\ gh.outcome = Raise(gh.errors[3])

\* the steps of a plan each carry a description and a rationale
HasFullSteps(sp) ==
    /\ "plan" \in DOMAIN sp.m
    /\ sp.m["plan"].items # <<>>
    /\ \A i \in DOMAIN sp.m["plan"].items :
         /\ IsDict(sp.m["plan"].items[i])
         /\ {"step", "rationale"} \subseteq DOMAIN sp.m["plan"].items[i].m

\* C30: for a plan whose steps each carry a description and a rationale
\* the prompt holds the issue title and the description of every step, in
\* plan order, and not the placeholder; for an empty or missing plan it
\* holds the issue title and the placeholder 'No plan available.'.
C30_PromptCarriesPlan ==
    prompt.pc = "done" =>
      LET sp == prompt.scoping_plan
          out == prompt.outcome
          steps == sp.m["plan"].items
      IN /\ HasFullSteps(sp) =>
              /\ out.k = "return"
              /\ Carries(out.v, <<prompt.issue_title>>)
              /\ ~Carries(out.v, <<"No plan available.">>)
              /\ \E pos \in [DOMAIN steps -> DOMAIN out.v] :
                    /\ \A i \in DOMAIN steps : <<out.v[pos[i]]>> = steps[i].m["step"].w
                    /\ \A i, j \in DOMAIN steps : i < j => pos[i] < pos[j]
         /\ ("plan" \notin DOMAIN sp.m \/ steps = <<>>) =>
              /\ out.k = "return"
              /\ Carries(out.v, <<prompt.issue_title>>)
              /\ Carries(out.v, <<"No plan available.">>)

\* a prompt was built from a plan of two different steps, each with a
\* description and a rationale
C30_Witness ==
    /\ prompt.pc = "done"
    /\ HasFullSteps(prompt.scoping_plan)
    /\ Len(prompt.scoping_plan.m["plan"].items) = 2
    /\ prompt.scoping_plan.m["plan"].items[1] # prompt.scoping_plan.m["plan"].items[2]
    /\ prompt.outcome.k = "return"

-----------------------------------------------------------------------------
(* Claims about histories of requests, checked under SpecWorkflow and Spec  *)

\* the latest analysis record of the issue holds a result whose plan is a
\* non-empty list of text steps, as the analysis schema has it
HoldsTextPlan(row) ==
    /\ row # NoRow
    /\ IsDict(row.last_structured_output)
    /\ "plan" \in DOMAIN row.last_structured_output.m
    /\ row.last_structured_output.m["plan"].t = "arr"
    /\ row.last_structured_output.m["plan"].items # <<>>
    /\ \A i \in DOMAIN row.last_structured_output.m["plan"].items :
         row.last_structured_output.m["plan"].items[i].t = "str"

\* C31 (as claimed): once query-status has persisted an analysis result
\* whose plan is a list of text steps, a start of the implementation phase
\* for the same tracked entity in which no collaborator fails succeeds.
C31_ExecuteAfterTextPlanSucceeds ==
    ( /\ last.op = "start"
      /\ last.phase = "exec"
      /\ last.in.fail = "none"
      /\ HoldsTextPlan(LatestScoping(sessions, last.in.issue)) ) =>
        last.outcome.k = "ok"

\* C32 (as claimed): a Phase Record whose lifecycle status is finished
\* keeps that status through every later start-phase, query-status and
\* poll operation.
C32_FinishedStaysFinished ==
    [][ \A sid \in SessionIds :
          (RowOf(sessions, sid) # NoRow /\ RowOf(sessions, sid).status = "finished") =>
              RowOf(sessions', sid).status = "finished" ]_vars

\* C33 (as claimed): a Phase Record that holds a non-empty latest
\* structured result still holds a non-empty one after any query-status
\* call and any poll.
C33_ResultNeverReplacedByNull ==
    [][ (last'.op \in {"query", "poll"} /\ ops' = ops + 1) =>
          \A sid \in SessionIds :
            (RowOf(sessions, sid) # NoRow
               /\ Truthy(RowOf(sessions, sid).last_structured_output)) =>
                RowOf(sessions', sid).last_structured_output # PyNone ]_vars

\* C34 (as claimed): after the poll handler has returned for a session that
\* has a Phase Record, the record's status is finished or blocked, whichever
\* terminal status (finished, blocked, stopped) the session service reported.
C34_PollLeavesFinishedOrBlocked ==
    (last.op = "poll" /\ last.outcome.k = "ok" /\ last.pre # NoRow) =>
        RowOf(sessions, last.sid).status \in {"finished", "blocked"}

\* C35 (as claimed): a start-phase call that reports failure to its caller
\* has left the table of Phase Records and the event log as they were.
C35_FailedStartLeavesNoTrace ==
    [][ (last'.op = "start" /\ ops' = ops + 1 /\ last'.outcome.k = "http_error") =>
          (sessions' = sessions /\ events' = events) ]_vars

\* C37 (as claimed): a call through the issue-tracker client's retry in
\* which every response had a 2xx status has sent one request, whatever
\* the rate-limit headers of the response were.
C37_SuccessMeansOneRequest ==
    (gh.pc = "done" /\ \A i \in DOMAIN gh.responses :
                          gh.responses[i].status_code \in 200..299) =>
        gh.calls = 1

\* C38 (as claimed): a scope or execute request whose repo has no "/" is
\* answered with HTTP 400 and no call to the issue tracker or the session
\* service is made.
C38_BadRepoRejectedWith400 ==
    (last.op = "start" /\ last.in.fail = "repo") =>
        (last.outcome = HttpError(400) /\ last.calls = <<>>)

\* C39 (as claimed): whatever initial interval the caller passes, no sleep
\* between fetches is longer than the configured maximum poll interval.
C39_NoSleepAboveMaximum ==
    poll.pc # "idle" =>
        \A i \in DOMAIN poll.sleeps : poll.sleeps[i] <= DEVIN_POLL_MAX_INTERVAL

\* C36: however two start-phase requests that got the same session id are
\* interleaved, the table never holds more than one Phase Record with that
\* id; the request that commits second after both found no record fails.
C36_OneRecordUnderConcurrency ==
    ~ConcIdle =>
      /\ \A sid \in SessionIds : RowCount(sid) <= 1
      /\ \A r \in Requests :
           (conc.pc[r] = "done" /\ conc.outcome[r].k = "ok") => RowCount(conc.sid[r]) = 1

\* both requests got the same session id and looked the record up before
\* either committed; one has committed and the other has failed
C36_Witness ==
    /\ ~ConcIdle
    /\ \A r \in Requests : conc.pc[r] = "done" /\ conc.found[r] = 0
    /\ conc.sid[1] = conc.sid[2]
    /\ conc.sid[1] # ""
    /\ \E r \in Requests : conc.outcome[r].k = "ok"
    /\ \E r \in Requests : conc.outcome[r] = HttpError(500)
    /\ RowCount(conc.sid[1]) = 1

====
